---------------------------- MODULE Spec2Model ----------------------------
(***************************************************************************)
(* Morphological metrics (Polansky, 1996): the Morph sequence object, its  *)
(* derivative engine, and the MorphologicalMetric suite built on a pair of *)
(* Morphs.  The library is a set of synchronous pure functions; the state  *)
(* machine below is the caller's view of it: two Morph slots, one          *)
(* MorphologicalMetric, and the operation that has just returned or        *)
(* thrown.                                                                 *)
(*                                                                         *)
(* Numbers.  Sequence data are integers.  Metric values are exact          *)
(* rationals <<p, q>> in lowest terms with q > 0, extended with the three  *)
(* non-finite values a division can produce: <<0, 0>> (NaN), <<1, 0>>      *)
(* (+Infinity) and <<-1, 0>> (-Infinity).  IEEE rounding is not modelled.  *)
(* An array read past the end yields `undefined', which arithmetic turns   *)
(* into NaN.                                                               *)
(***************************************************************************)
EXTENDS Integers, Sequences, FiniteSets, TLC

VARIABLES
    morphs,     \* <<slot 1, slot 2>>: each [made, data], data the Morph's sequence
    metric,     \* [made, ordered]: the MorphologicalMetric over (morphs[1], morphs[2])
    op,         \* name of the operation that has just been called, or "none"
    args,       \* its receiver and arguments, as a record
    outcome     \* [threw |-> BOOLEAN, value |-> what it returned]

vars == <<morphs, metric, op, args, outcome>>

----------------------------------------------------------------------------
(* Bounds of the model *)

\* longest sequence drawn exhaustively
MaxLen == 3

\* values the exhaustively drawn sequences are built from
Vals == {-1, 2}

\* further sequences: the worked examples of the test suite (the last two
\* have five distinct values out of order), and short ones with a zero, with
\* three distinct values and with negative values only
Examples ==
    { <<0, 2, 4, 1, 0>>, <<0, 2, 5, 2, 1>>, <<4, 4, 1, 6, 2>>,
      <<0, 0, 1>>, <<-1, 0, 2>>, <<-3, -1>>,
      <<5, 3, 6, 1, 4>>, <<3, 6, 1, 4, 2>>,
      <<1, 6, 2, 5, 11>>, <<3, 15, 13, 2, 9>> }

SeqsUpTo(S, n) == UNION { [1..k -> S] : k \in 0..n }

\* an optional argument: <<>> when omitted, <<v>> when given
Omitted == <<>>
Given(v) == <<v>>
Opt(S) == {Omitted} \cup {Given(v) : v \in S}
OrElse(opt, default) == IF opt = Omitted THEN default ELSE opt[1]

\* arrays a caller may pass to the Morph constructor (too-short ones included)
Inputs == SeqsUpTo(Vals, MaxLen) \cup Examples

\* derivative orders a caller may ask for (invalid ones included)
Orders == -1 .. (MaxLen + 1)


\* weights vectors a caller may pass to SobalevOLM: all ones of every length,
\* and the vectors of the test suite, unequal ones, and one summing to zero
WeightVectors ==
    { [i \in 1..k |-> <<1, 1>>] : k \in 0..MaxLen }
    \cup { << <<1, 1>>, <<1, 2>>, <<1, 3>> >>, << <<1, 2>>, <<1, 3>> >>,
           << <<2, 1>>, <<1, 1>> >>, << <<1, 1>>, <<-1, 1>> >> }

\* orders a caller may pass to SobalevOLM (omitted: minOrder 0, maxOrder 2)
SobalevMinArgs == Opt({-1, 1, 2})
SobalevMaxArgs == Opt(1..MaxLen)

\* orders a caller may pass to OLMOriginal and OLMGeneral (omitted: 1)
MetricOrders == 0 .. MaxLen

Scalings == {"none", "absolute", "relative"}

IntervalForms ==
    { "adjacency interval", "fundamental index", "fundamental value",
      "mean fundamental value", "max fundamental value", "combinatorial interval" }

\* the options a caller may pass to generateIntervals: each form (or none)
\* with the option it reads given or left out, the other options left out
IntervalOptions ==
    { [form |-> f, adjacencyInterval |-> k,
       fundamentalValue |-> Omitted, fundamentalIndex |-> Omitted] :
         f \in {Omitted, Given("adjacency interval")}, k \in Opt(0..MaxLen) }
    \cup { [form |-> Given("fundamental index"), adjacencyInterval |-> Omitted,
            fundamentalValue |-> Omitted, fundamentalIndex |-> x] :
              x \in Opt(-1..MaxLen) }
    \cup { [form |-> Given("fundamental value"), adjacencyInterval |-> Omitted,
            fundamentalValue |-> v, fundamentalIndex |-> Omitted] : v \in Opt(Vals) }
    \cup { [form |-> Given(f), adjacencyInterval |-> Omitted,
            fundamentalValue |-> Omitted, fundamentalIndex |-> Omitted] :
              f \in { "mean fundamental value", "max fundamental value",
                       "combinatorial interval" } }

\* `undefined', as a pair no number has (q < 0)
Undefined == <<0, -1>>
\* an empty slot; `data' is the array the Morph holds, `given' its content when
\* the constructor received it
NoMorph == [made |-> FALSE, data |-> <<>>, given |-> <<>>]
NoMetric == [made |-> FALSE, ordered |-> FALSE]
NoValue == <<>>

----------------------------------------------------------------------------
(* Arithmetic *)

Abs(x) == IF x < 0 THEN -x ELSE x

Sgn(x) == IF x > 0 THEN 1 ELSE IF x < 0 THEN -1 ELSE 0

RECURSIVE GCD(_, _)
GCD(a, b) == IF b = 0 THEN a ELSE GCD(b, a % b)

NaN == <<0, 0>>
Infinity == <<1, 0>>

\* the number p/q; q = 0 gives NaN or a signed infinity
Norm(p, q) ==
    IF q = 0 THEN <<Sgn(p), 0>>
    ELSE LET g == GCD(Abs(p), Abs(q))
         IN  <<Sgn(q) * (p \div g), Abs(q) \div g>>

R(i) == <<i, 1>>

IsFinite(a) == a[2] # 0

RNeg(a) == <<-a[1], a[2]>>

RAbs(a) == <<Abs(a[1]), a[2]>>

RAdd(a, b) ==
    IF IsFinite(a) /\ IsFinite(b) THEN Norm(a[1] * b[2] + b[1] * a[2], a[2] * b[2])
    ELSE IF a = NaN \/ b = NaN THEN NaN
    ELSE IF ~IsFinite(a) /\ ~IsFinite(b) THEN (IF a = b THEN a ELSE NaN)
    ELSE IF IsFinite(a) THEN b ELSE a

RSub(a, b) == RAdd(a, RNeg(b))

RMul(a, b) == Norm(a[1] * b[1], a[2] * b[2])

RInv(b) ==
    IF ~IsFinite(b) THEN (IF b = NaN THEN NaN ELSE R(0))
    ELSE IF b[1] = 0 THEN Infinity
    ELSE Norm(b[2], b[1])

RDiv(a, b) == RMul(a, RInv(b))

\* a < b on numbers that are not NaN
RLess(a, b) ==
    IF ~IsFinite(a) /\ ~IsFinite(b) THEN a[1] < b[1]
    ELSE a[1] * b[2] < b[1] * a[2]

\* Math.max(a, b)
RMax(a, b) == IF a = NaN \/ b = NaN THEN NaN ELSE IF RLess(a, b) THEN b ELSE a

\* Math.max(init, ...arr), folded from the left
RECURSIVE RMaxOf(_, _)
RMaxOf(init, arr) ==
    IF arr = <<>> THEN init
    ELSE RMax(RMaxOf(init, SubSeq(arr, 1, Len(arr) - 1)), arr[Len(arr)])

\* a number read from an array slot: `undefined' becomes NaN in arithmetic
Num(x) == IF x = Undefined THEN NaN ELSE x

\* arr[i] with a 0-based index, as JavaScript reads it
At(arr, i) == IF i >= 0 /\ i < Len(arr) THEN arr[i + 1] ELSE Undefined

\* arr.reduce((a, b) => a + b, 0)
RECURSIVE RSum(_)
RSum(arr) == IF arr = <<>> THEN R(0) ELSE RAdd(RSum(SubSeq(arr, 1, Len(arr) - 1)), arr[Len(arr)])

----------------------------------------------------------------------------
(* Morph *)

\* (mutant) the constructor accepts a one-element array
MorphTooShortOffByOne(data) == Len(data) < 1

\* constructor: the length check that makes construction throw
MorphTooShort(data) == Len(data) < 2

\* (mutant) slice(2) in place of slice(1)
Slice2(arr) == SubSeq(arr, 3, Len(arr))

\* arr.slice(1)
Slice1(arr) == SubSeq(arr, 2, Len(arr))

\* (mutant) the subtraction the other way round
FirstDifferenceReversed(arr) == [i \in 1..Len(Slice1(arr)) |-> arr[i] - arr[i + 1]]

\* arr.slice(1).map((_, i) => arr[i + 1] - arr[i])
FirstDifference(arr) == [i \in 1..Len(Slice1(arr)) |-> arr[i + 1] - arr[i]]

\* (mutant) the magnitude step left out
MapAbsOmitted(arr) == arr

\* out.map(n => Math.abs(n))
MapAbs(arr) == [i \in 1..Len(arr) |-> Abs(arr[i])]

\* (mutant) an order equal to the length is let through
DerivateThrowsOffByOne(data, order) == (Len(data) - order < 0) \/ (order < 0)

\* derivate: the two guards that throw
DerivateThrows(data, order) == (Len(data) - order < 1) \/ (order < 0)

RECURSIVE Derivate(_, _, _)

\* (mutant) the recursive call drops `absolute', so only the last step takes magnitudes
DerivateAbsoluteLastStepOnly(data, order, absolute) ==
    LET out == IF order = 0 THEN data
               ELSE IF order = 1 THEN FirstDifference(data)
               ELSE FirstDifference(Derivate(data, order - 1, FALSE))
    IN  IF absolute THEN MapAbs(out) ELSE out

\* derivate: the value returned when no guard throws
Derivate(data, order, absolute) ==
    LET out == IF order = 0 THEN data
               ELSE IF order = 1 THEN FirstDifference(data)
               ELSE FirstDifference(Derivate(data, order - 1, absolute))
    IN  IF absolute THEN MapAbs(out) ELSE out

----------------------------------------------------------------------------
(* MorphologicalMetric *)

\* (mutant) the length check made whatever `ordered' is
MetricLengthsRejectedAlways(m, n, ordered) == Len(m) # Len(n)

\* constructor: the check that makes construction throw
MetricLengthsRejected(m, n, ordered) == ordered /\ Len(m) # Len(n)

\* constructor: ordered defaults to true
DefaultOrdered == TRUE

SobalevDefaultMaxOrder == 2
SobalevDefaultMinOrder == 0

\* SobalevOLM: weights = Array(maxOrder - minOrder).fill(1) when omitted
SobalevDefaultWeights(minOrder, maxOrder) == [i \in 1..(maxOrder - minOrder) |-> R(1)]

\* SobalevOLM: the guards that throw, and the derivate calls of the loop
SobalevThrows(m, n, ordered, minOrder, maxOrder, weights) ==
    \/ ~ordered
    \/ maxOrder - minOrder < 1
    \/ weights # Omitted /\ Len(weights[1]) # maxOrder - minOrder + 1
    \/ \E i \in minOrder..maxOrder : DerivateThrows(m, i) \/ DerivateThrows(n, i)

\* Math.abs(mDeriv[j] - nDeriv[j]) over two arrays of integers, 0-based j
AbsDifferenceAt(mDeriv, nDeriv, j) ==
    IF j < Len(nDeriv) THEN R(Abs(mDeriv[j + 1] - nDeriv[j + 1])) ELSE NaN

\* SobalevOLM: sum / mDeriv.length for the order i
SobalevNormedSum(m, n, i) ==
    LET mDeriv == Derivate(m, i, TRUE)
        nDeriv == Derivate(n, i, TRUE)
        sum == RSum([j \in 1..Len(mDeriv) |-> AbsDifferenceAt(mDeriv, nDeriv, j - 1)])
    IN  RDiv(sum, R(Len(mDeriv)))

\* (mutant) the weighted sum divided by the number of weights
SummedWeightsCounted(weights) == R(Len(weights))

\* weights.reduce((a, b) => a + b, 0)
SummedWeights(weights) == RSum(weights)

\* SobalevOLM: the value returned when nothing throws
SobalevOLM(m, n, minOrder, maxOrder, weightsArg) ==
    LET weights == OrElse(weightsArg, SobalevDefaultWeights(minOrder, maxOrder))
        normedSums == [k \in 1..(maxOrder - minOrder + 1) |->
                          SobalevNormedSum(m, n, minOrder + k - 1)]
        weightedSums == [k \in 1..Len(normedSums) |->
                            RMul(normedSums[k], Num(At(weights, k - 1)))]
    IN  RDiv(RSum(weightedSums), SummedWeights(weights))

\* Lm: the number of pairwise relationships of l elements
Lm(l) == (l * l - l) \div 2

\* a sign that is 1 when the sequence rises
DeltaSgnRisingPositive(a, b) == IF a < b THEN 1 ELSE IF a = b THEN 0 ELSE -1

\* delta.sgn: 1 when a > b (goes down), 0 when equal, -1 when a < b (goes up)
DeltaSgn(a, b) == IF a > b THEN 1 ELSE IF a = b THEN 0 ELSE -1

\* delta.diff against nSgns[i], which is undefined past the end of nSgns
DeltaDiffAt(mSgn, nSgns, i) ==
    IF i < Len(nSgns) THEN (IF mSgn # nSgns[i + 1] THEN 1 ELSE 0) ELSE 1

\* directionInterval
DirectionInterval(data) == [i \in 1..Len(Slice1(data)) |-> DeltaSgn(data[i], data[i + 1])]

\* the data as numbers
Numbers(data) == [i \in 1..Len(data) |-> R(data[i])]

\* adjacency intervals that always pair neighbours
AdjacencyIntervalsOfNeighbours(data, adjacencyInterval) ==
    LET count == IF Len(data) - adjacencyInterval > 0
                 THEN Len(data) - adjacencyInterval ELSE 0
    IN  [i \in 1..count |-> <<At(Numbers(data), i - 1), At(Numbers(data), i)>>]

\* generateIntervals, form 'adjacency interval': the loop runs while
\* i < data.length - adjacencyInterval
AdjacencyIntervals(data, adjacencyInterval) ==
    LET count == IF Len(data) - adjacencyInterval > 0
                 THEN Len(data) - adjacencyInterval ELSE 0
    IN  [i \in 1..count |->
           <<At(Numbers(data), i - 1), At(Numbers(data), i - 1 + adjacencyInterval)>>]

\* generateIntervals, form 'combinatorial interval': the pairs pushed from row i on
RECURSIVE CombinatorialFrom(_, _)
CombinatorialFrom(data, i) ==
    IF i > Len(data) - 1 THEN <<>>
    ELSE [j \in 1..(Len(data) - i) |-> <<data[i], data[i + j]>>]
         \o CombinatorialFrom(data, i + 1)

\* the pairs of the combinatorial form, each one turned around
CombinatorialIntervalsTurned(data) ==
    [i \in 1..Len(CombinatorialFrom(data, 1)) |->
        <<CombinatorialFrom(data, 1)[i][2], CombinatorialFrom(data, 1)[i][1]>>]

CombinatorialIntervals(data) == CombinatorialFrom(data, 1)

\* a contour vector that counts the zero differences as falling ones
ContourVectorZeroAsFalling(deltas) ==
    << Cardinality({i \in 1..Len(deltas) : deltas[i] > 0}), 0,
       Cardinality({i \in 1..Len(deltas) : ~(deltas[i] > 0)}) >>

\* the forEach of linearContourVector and combinatorialContourVector: slot 0
\* counts the differences > 0, slot 1 those === 0, slot 2 the others
RECURSIVE ContourVectorOf(_)
ContourVectorOf(deltas) ==
    IF deltas = <<>> THEN <<0, 0, 0>>
    ELSE LET vec == ContourVectorOf(SubSeq(deltas, 1, Len(deltas) - 1))
             ai == deltas[Len(deltas)]
         IN  IF ai > 0 THEN [vec EXCEPT ![1] = @ + 1]
             ELSE IF ai = 0 THEN [vec EXCEPT ![2] = @ + 1]
             ELSE [vec EXCEPT ![3] = @ + 1]

\* linearContourVector: over this.derivate(1)
LinearContourVector(data) == ContourVectorOf(Derivate(data, 1, FALSE))

\* combinatorialContourVector: over b - a of every combinatorial interval [a, b]
CombinatorialContourVector(data) ==
    LET ints == CombinatorialIntervals(data)
    IN  ContourVectorOf([i \in 1..Len(ints) |-> ints[i][2] - ints[i][1]])

\* arr with x put in before the first element greater than x
RECURSIVE Inserted(_, _)
Inserted(arr, x) ==
    IF arr = <<>> THEN <<x>>
    ELSE IF arr[Len(arr)] > x
         THEN Inserted(SubSeq(arr, 1, Len(arr) - 1), x) \o <<arr[Len(arr)]>>
         ELSE arr \o <<x>>

\* data.slice().sort((a, b) => a - b)
RECURSIVE Sorted(_)
Sorted(data) ==
    IF data = <<>> THEN <<>>
    ELSE Inserted(Sorted(SubSeq(data, 1, Len(data) - 1)), data[Len(data)])

\* the 0-based index of the last element equal to n, -1 when there is none
LastIndexOf(arr, n) ==
    IF \E i \in 1..Len(arr) : arr[i] = n
    THEN (CHOOSE i \in 1..Len(arr) :
             arr[i] = n /\ \A j \in (i + 1)..Len(arr) : arr[j] # n) - 1
    ELSE -1

\* arr.indexOf(n): the 0-based index of the first element equal to n, or -1
IndexOf(arr, n) ==
    IF \E i \in 1..Len(arr) : arr[i] = n
    THEN (CHOOSE i \in 1..Len(arr) : arr[i] = n /\ \A j \in 1..(i - 1) : arr[j] # n) - 1
    ELSE -1

\* morrisRanking
MorrisRanking(data) == [i \in 1..Len(data) |-> IndexOf(Sorted(data), data[i]) + 1]

\* a magnitude matrix of signed differences
CombinatorialSignedMatrix(data) ==
    [i \in 1..(Len(data) - 1) |-> [k \in 1..(Len(data) - i) |-> data[i] - data[i + k]]]

\* combinatorialMagnitudeMatrix: row i holds Math.abs(data[i] - data[j]) for j > i
CombinatorialMagnitudeMatrix(data) ==
    [i \in 1..(Len(data) - 1) |-> [k \in 1..(Len(data) - i) |-> Abs(data[i] - data[i + k])]]

\* the default comparator of every metric: Math.abs(a - b)
AbsoluteValue(a, b) == RAbs(RSub(a, b))

\* data.slice(1).map((x, i) => delta(data[i], x)) with the default delta
AdjacentDeltas(data) ==
    [i \in 1..Len(Slice1(data)) |-> AbsoluteValue(R(data[i]), R(data[i + 1]))]

\* ints.map(int => delta(int[0], int[1])) with the default delta
IntervalDeltas(ints) == [i \in 1..Len(ints) |-> AbsoluteValue(R(ints[i][1]), R(ints[i][2]))]

\* mDeltas.map((mDelta, i) => Math.abs(mDelta - nDeltas[i]))
PairedDifferences(mDeltas, nDeltas) ==
    [i \in 1..Len(mDeltas) |-> RAbs(RSub(mDeltas[i], Num(At(nDeltas, i - 1))))]

\* arr.map(x => x / d)
DividedBy(arr, d) == [i \in 1..Len(arr) |-> RDiv(arr[i], d)]

\* Math.max(...data) of integers
RECURSIVE MaxOfData(_)
MaxOfData(data) ==
    IF Len(data) = 1 THEN data[1]
    ELSE LET rest == MaxOfData(SubSeq(data, 1, Len(data) - 1))
         IN  IF data[Len(data)] > rest THEN data[Len(data)] ELSE rest

\* data.map(n => [n, v])
PairedWith(data, v) == [i \in 1..Len(data) |-> <<R(data[i]), v>>]

\* generateIntervals: the guards that throw
GenerateIntervalsThrows(data, form, fundamentalValue, fundamentalIndex) ==
    \/ form = "fundamental index" /\ fundamentalIndex = Omitted
    \/ form = "fundamental index" /\ fundamentalIndex # Omitted
         /\ fundamentalIndex[1] > Len(data) - 1
    \/ form = "fundamental value" /\ fundamentalValue = Omitted

\* generateIntervals: the pairs returned when no guard throws
GenerateIntervals(data, form, adjacencyInterval, fundamentalValue, fundamentalIndex) ==
    IF form = "adjacency interval" THEN AdjacencyIntervals(data, adjacencyInterval)
    ELSE IF form = "fundamental index"
         THEN PairedWith(data, At(Numbers(data), fundamentalIndex[1]))
    ELSE IF form = "fundamental value" THEN PairedWith(data, R(fundamentalValue[1]))
    ELSE IF form = "mean fundamental value"
         THEN PairedWith(data, RDiv(RSum(Numbers(data)), R(Len(data))))
    ELSE IF form = "max fundamental value" THEN PairedWith(data, R(MaxOfData(data)))
    ELSE [i \in 1..Len(CombinatorialIntervals(data)) |->
            <<R(CombinatorialIntervals(data)[i][1]), R(CombinatorialIntervals(data)[i][2])>>]

\* the options of generateIntervals for one operand, with the defaults of
\* OLMGeneralizedInterval filled in
IntervalsOf(data, o) ==
    GenerateIntervals(data, OrElse(o.form, "adjacency interval"),
                      OrElse(o.adjacencyInterval, 1), o.fundamentalValue, o.fundamentalIndex)

IntervalsThrow(data, o) ==
    GenerateIntervalsThrows(data, OrElse(o.form, "adjacency interval"),
                            o.fundamentalValue, o.fundamentalIndex)

\* OLMGeneralizedInterval: generateIntervals throws, or the counts differ
OLMGeneralizedIntervalThrows(m, n, mOpts, nOpts) ==
    \/ IntervalsThrow(m, mOpts)
    \/ IntervalsThrow(n, nOpts)
    \/ Len(IntervalsOf(m, mOpts)) # Len(IntervalsOf(n, nOpts))

\* ints.forEach(int => maxInt = Math.max(maxInt, int[0], int[1]))
RECURSIVE MaxEndpoint(_, _)
MaxEndpoint(maxInt, ints) ==
    IF ints = <<>> THEN maxInt
    ELSE LET int == ints[Len(ints)]
         IN  RMax(RMax(MaxEndpoint(maxInt, SubSeq(ints, 1, Len(ints) - 1)), Num(int[1])),
                  Num(int[2]))

\* OLMGeneralizedInterval with the default delta and psi
OLMGeneralizedInterval(m, n, mOpts, nOpts) ==
    LET mIntervals == IntervalsOf(m, mOpts)
        nIntervals == IntervalsOf(n, nOpts)
        maxInt == MaxEndpoint(MaxEndpoint(R(0), mIntervals), nIntervals)
        psiVals == [i \in 1..Len(mIntervals) |->
                      AbsoluteValue(
                          AbsoluteValue(Num(mIntervals[i][1]), Num(mIntervals[i][2])),
                          AbsoluteValue(Num(nIntervals[i][1]), Num(nIntervals[i][2])))]
    IN  RDiv(RSum(psiVals), RMul(R(Len(psiVals)), maxInt))

\* OLMOriginal: the guards that throw, and the derivate calls
OLMOriginalThrows(m, n, ordered, order) ==
    \/ ~ordered
    \/ order < 1
    \/ DerivateThrows(m, order)
    \/ DerivateThrows(n, order)

\* an original form over the signed intervals, without the magnitudes
OLMOriginalOfSignedIntervals(m, n, order) ==
    LET mDeriv == Derivate(m, order, FALSE)
        nDeriv == Derivate(n, order, FALSE)
        out == RSum([i \in 1..Len(mDeriv) |->
                       IF i <= Len(nDeriv) THEN R(Abs(mDeriv[i] - nDeriv[i])) ELSE NaN])
    IN  RDiv(out, R(Len(m) - order))

\* OLMOriginal with squared = false
OLMOriginal(m, n, order) ==
    LET mDeriv == Derivate(m, order, TRUE)
        nDeriv == Derivate(n, order, TRUE)
        out == RSum([i \in 1..Len(mDeriv) |->
                       IF i <= Len(nDeriv)
                       THEN R(Abs(Abs(mDeriv[i]) - Abs(nDeriv[i])))
                       ELSE NaN])
    IN  RDiv(out, R(Len(m) - order))

\* OLMGeneral: only the derivate calls can throw
OLMGeneralThrows(m, n, order) == DerivateThrows(m, order) \/ DerivateThrows(n, order)

\* OLMGeneral with the default delta
OLMGeneral(m, n, order) ==
    LET mDeriv == Derivate(m, order, TRUE)
        nDeriv == Derivate(n, order, TRUE)
        out == RSum([i \in 1..Len(mDeriv) |-> AbsDifferenceAt(mDeriv, nDeriv, i - 1)])
    IN  RDiv(out, R(Len(mDeriv)))

OLMCanonical(m, n) ==
    LET diffs == PairedDifferences(AdjacentDeltas(m), AdjacentDeltas(n))
    IN  RDiv(RSum(diffs), R(Len(m) - 1))

OLMScaled(m, n) ==
    LET mDeltas == AdjacentDeltas(m)
        nDeltas == AdjacentDeltas(n)
        maxInt == RMaxOf(RMaxOf(R(0), mDeltas), nDeltas)
        diffs == PairedDifferences(mDeltas, nDeltas)
    IN  RDiv(RSum(diffs), RMul(R(Len(m) - 1), maxInt))

\* a relative scaling that divides both operands by their shared maximum
OLMRelativeToSharedMaximum(m, n) == OLMScaled(m, n)

OLMRelativeScaling(m, n) ==
    LET mDeltas == AdjacentDeltas(m)
        nDeltas == AdjacentDeltas(n)
        normedMDeltas == DividedBy(mDeltas, RMaxOf(R(0), mDeltas))
        normedNDeltas == DividedBy(nDeltas, RMaxOf(R(0), nDeltas))
        diffs == PairedDifferences(normedMDeltas, normedNDeltas)
    IN  RDiv(RSum(diffs), R(Len(mDeltas)))

\* OLM: dispatch on scaling
OLM(m, n, scaling) ==
    IF scaling = "none" THEN OLMCanonical(m, n)
    ELSE IF scaling = "relative" THEN OLMRelativeScaling(m, n)
    ELSE OLMScaled(m, n)

\* what a direction metric returns: the number, or { value, grain } when verbose
Verbosely(verbose, value, grain) ==
    IF verbose THEN [value |-> value, grain |-> grain] ELSE value

OLD(m, n, verbose) ==
    LET mDI == DirectionInterval(m)
        nDI == DirectionInterval(n)
        sum == RSum([i \in 1..Len(mDI) |-> R(DeltaDiffAt(mDI[i], nDI, i - 1))])
        grain == RDiv(R(1), R(Len(m) - 1))
    IN  Verbosely(verbose, RMul(sum, grain), grain)

\* an unordered linear direction with the grain of the ordered one
ULDWithOrderedGrain(m, n, verbose) ==
    LET mDirVec == LinearContourVector(m)
        nDirVec == LinearContourVector(n)
        sum == RSum([i \in 1..3 |-> R(Abs(mDirVec[i] - nDirVec[i]))])
        grain == RDiv(R(1), R(Len(m) - 1))
    IN  Verbosely(verbose, RMul(sum, grain), grain)

\* ULD: the linear contour vectors compared slot by slot
ULD(m, n, verbose) ==
    LET mDirVec == LinearContourVector(m)
        nDirVec == LinearContourVector(n)
        sum == RSum([i \in 1..3 |-> R(Abs(mDirVec[i] - nDirVec[i]))])
        grain == RDiv(R(1), R((Len(m) - 1) * 2))
    IN  Verbosely(verbose, RMul(sum, grain), grain)

\* UCD: the combinatorial contour vectors compared slot by slot
UCD(m, n, verbose) ==
    LET mVec == CombinatorialContourVector(m)
        nVec == CombinatorialContourVector(n)
        sum == RSum([i \in 1..3 |-> R(Abs(mVec[i] - nVec[i]))])
        grain == RDiv(R(1), R(Lm(Len(m)) * 2))
    IN  Verbosely(verbose, RMul(sum, grain), grain)

\* a magnitude metric that divides by the length of the data
MagnitudeMetricOverLength(m, n, absolute, normalized) ==
    LET mDeriv == Derivate(m, 1, absolute)
        nDeriv == Derivate(n, 1, absolute)
        out == RSum([i \in 1..Len(mDeriv) |->
                      IF absolute
                      THEN RAbs(RSub(R(mDeriv[i]), Num(At(Numbers(nDeriv), i - 1))))
                      ELSE RSub(R(mDeriv[i]), Num(At(Numbers(nDeriv), i - 1)))])
    IN  IF normalized THEN RDiv(out, R(Len(m))) ELSE out

\* MagnitudeMetric
MagnitudeMetric(m, n, absolute, normalized) ==
    LET mDeriv == Derivate(m, 1, absolute)
        nDeriv == Derivate(n, 1, absolute)
        out == RSum([i \in 1..Len(mDeriv) |->
                      IF absolute
                      THEN RAbs(RSub(R(mDeriv[i]), Num(At(Numbers(nDeriv), i - 1))))
                      ELSE RSub(R(mDeriv[i]), Num(At(Numbers(nDeriv), i - 1)))])
    IN  IF normalized THEN RDiv(out, R(Len(mDeriv))) ELSE out

OCD(m, n, verbose) ==
    LET mInts == CombinatorialIntervals(m)
        nInts == CombinatorialIntervals(n)
        mSgns == [i \in 1..Len(mInts) |-> DeltaSgn(mInts[i][1], mInts[i][2])]
        nSgns == [i \in 1..Len(nInts) |-> DeltaSgn(nInts[i][1], nInts[i][2])]
        sum == RSum([i \in 1..Len(mSgns) |-> R(DeltaDiffAt(mSgns[i], nSgns, i - 1))])
        grain == RDiv(R(1), R(Lm(Len(m))))
    IN  Verbosely(verbose, RMul(sum, grain), grain)

OCM(m, n, scaling) ==
    LET mDeltas == IntervalDeltas(CombinatorialIntervals(m))
        nDeltas == IntervalDeltas(CombinatorialIntervals(n))
        maxInt == IF scaling = "absolute" THEN RMaxOf(RMaxOf(R(0), mDeltas), nDeltas) ELSE R(0)
        mMaxInt == IF scaling = "relative" THEN RMaxOf(R(0), mDeltas) ELSE R(0)
        nMaxInt == IF scaling = "relative" THEN RMaxOf(R(0), nDeltas) ELSE R(0)
        diffs == [i \in 1..Len(mDeltas) |->
                    IF scaling = "relative"
                    THEN RAbs(RSub(RDiv(mDeltas[i], mMaxInt),
                                   RDiv(Num(At(nDeltas, i - 1)), nMaxInt)))
                    ELSE RAbs(RSub(mDeltas[i], Num(At(nDeltas, i - 1))))]
        out == RDiv(RSum(diffs), R(Lm(Len(m))))
    IN  IF scaling = "absolute" THEN RDiv(out, maxInt) ELSE out

\* Math.max(...diffs)
MaxOfSpread(diffs) == RMaxOf(RNeg(Infinity), diffs)

MaxOLM(m, n) == MaxOfSpread(PairedDifferences(AdjacentDeltas(m), AdjacentDeltas(n)))

MaxOCM(m, n) ==
    MaxOfSpread(PairedDifferences(IntervalDeltas(CombinatorialIntervals(m)),
                                  IntervalDeltas(CombinatorialIntervals(n))))

\* the mean of an array: its sum over its length
MeanOf(arr) == RDiv(RSum(arr), R(Len(arr)))

\* ULMAbsoluteScaling
ULMAbsoluteScaling(m, n) ==
    LET mDeltas == AdjacentDeltas(m)
        nDeltas == AdjacentDeltas(n)
        maxInt == RMaxOf(RMaxOf(R(0), mDeltas), nDeltas)
        preScaled == RAbs(RSub(MeanOf(mDeltas), MeanOf(nDeltas)))
    IN  RDiv(preScaled, maxInt)

\* ULMRelativeScaling
ULMRelativeScaling(m, n) ==
    LET mDeltas == AdjacentDeltas(m)
        nDeltas == AdjacentDeltas(n)
        mNormed == RDiv(RSum(mDeltas), RMul(R(Len(mDeltas)), RMaxOf(R(0), mDeltas)))
        nNormed == RDiv(RSum(nDeltas), RMul(R(Len(nDeltas)), RMaxOf(R(0), nDeltas)))
    IN  RAbs(RSub(mNormed, nNormed))

\* an unordered linear magnitude that compares the sums, not the means
ULMOfSums(m, n, scaling) ==
    RAbs(RSub(RSum(AdjacentDeltas(m)), RSum(AdjacentDeltas(n))))

\* ULM: dispatch on scaling
ULM(m, n, scaling) ==
    IF scaling = "none"
    THEN RAbs(RSub(MeanOf(AdjacentDeltas(m)), MeanOf(AdjacentDeltas(n))))
    ELSE IF scaling = "relative" THEN ULMRelativeScaling(m, n)
    ELSE ULMAbsoluteScaling(m, n)

\* UCM
UCM(m, n, scaling) ==
    LET mDeltas == IntervalDeltas(CombinatorialIntervals(m))
        nDeltas == IntervalDeltas(CombinatorialIntervals(n))
        maxInt == IF scaling = "absolute" THEN RMaxOf(RMaxOf(R(0), mDeltas), nDeltas) ELSE R(0)
        mMaxInt == IF scaling = "relative" THEN RMaxOf(R(0), mDeltas) ELSE R(0)
        nMaxInt == IF scaling = "relative" THEN RMaxOf(R(0), nDeltas) ELSE R(0)
        mSum == IF scaling = "relative" THEN RDiv(RSum(mDeltas), mMaxInt) ELSE RSum(mDeltas)
        nSum == IF scaling = "relative" THEN RDiv(RSum(nDeltas), nMaxInt) ELSE RSum(nDeltas)
        out == RAbs(RSub(RDiv(mSum, R(Len(mDeltas))), RDiv(nSum, R(Len(nDeltas)))))
    IN  IF scaling = "absolute" THEN RDiv(out, maxInt) ELSE out

MaxULM(m, n) ==
    RAbs(RSub(MaxOfSpread(AdjacentDeltas(m)), MaxOfSpread(AdjacentDeltas(n))))

MaxUCM(m, n) ==
    RAbs(RSub(MaxOfSpread(IntervalDeltas(CombinatorialIntervals(m))),
              MaxOfSpread(IntervalDeltas(CombinatorialIntervals(n)))))

\* a contour vector with every slot divided by total
NormedVector(vec, total) == [i \in 1..3 |-> RDiv(R(vec[i]), R(total))]

\* the sum of the absolute per-slot differences of two normed vectors
NormedMismatch(mNormed, nNormed) ==
    RSum([i \in 1..3 |-> RAbs(RSub(mNormed[i], nNormed[i]))])

\* an unequal-length form that does not halve the sum
ULDUnequalLengthFormNotHalved(m, n) ==
    NormedMismatch(NormedVector(LinearContourVector(m), Len(m) - 1),
                   NormedVector(LinearContourVector(n), Len(n) - 1))

ULDUnequalLengthForm(m, n) ==
    RDiv(NormedMismatch(NormedVector(LinearContourVector(m), Len(m) - 1),
                        NormedVector(LinearContourVector(n), Len(n) - 1)),
         R(2))

UCDUnequalLengthForm(m, n) ==
    RDiv(NormedMismatch(NormedVector(CombinatorialContourVector(m), Lm(Len(m))),
                        NormedVector(CombinatorialContourVector(n), Lm(Len(n)))),
         R(2))

\* delta(deriv[i], deriv[i + 1]) with the default delta; deriv[i + 1] is
\* undefined at the last i
MetaDeltaAt(deriv, i) ==
    AbsoluteValue(Num(At(Numbers(deriv), i)), Num(At(Numbers(deriv), i + 1)))

\* OLMMetaInterval with the default psi and delta: the map runs over every
\* index of mDeriv
OLMMetaInterval(m, n) ==
    LET mDeriv == Derivate(m, 1, TRUE)
        nDeriv == Derivate(n, 1, TRUE)
        mDeltas == [i \in 1..Len(mDeriv) |-> MetaDeltaAt(mDeriv, i - 1)]
        nDeltas == [i \in 1..Len(mDeriv) |-> MetaDeltaAt(nDeriv, i - 1)]
        maxInt == RMaxOf(RMaxOf(R(0), mDeltas), nDeltas)
        out == [i \in 1..Len(mDeriv) |-> AbsoluteValue(mDeltas[i], nDeltas[i])]
    IN  RDiv(RSum(out), RMul(R(Len(out)), maxInt))

\* intervalVariance with the default delta
IntervalVariance(data) ==
    LET deltas == AdjacentDeltas(data)
        mean == MeanOf(deltas)
        diffs == [i \in 1..Len(deltas) |->
                    RDiv(RMul(RSub(deltas[i], mean), RSub(deltas[i], mean)),
                         R(Len(data) - 1))]
    IN  RSum(diffs)

----------------------------------------------------------------------------
(* The caller's state machine *)

Idle == op = "none"

Returned(v) == [threw |-> FALSE, value |-> v]
Threw == [threw |-> TRUE, value |-> NoValue]

Init ==
    /\ morphs = <<NoMorph, NoMorph>>
    /\ metric = NoMetric
    /\ op = "none"
    /\ args = [recv |-> 0]
    /\ outcome = Returned(NoValue)

\* new Morph(a), kept in slot s when construction succeeds
NewMorph(s, a) ==
    /\ Idle
    /\ ~morphs[s].made
    /\ op' = "new Morph"
    /\ args' = [recv |-> s, data |-> a]
    /\ IF MorphTooShort(a)
       THEN /\ outcome' = Threw
            /\ UNCHANGED morphs
       ELSE /\ outcome' = Returned(NoValue)
            /\ morphs' = [morphs EXCEPT ![s] = [made |-> TRUE, data |-> a, given |-> a]]
    /\ UNCHANGED metric

\* morphs[s].derivate(order, absolute)
CallDerivate(s, order, absolute) ==
    /\ Idle
    /\ morphs[s].made
    /\ op' = "derivate"
    /\ args' = [recv |-> s, data |-> morphs[s].data, order |-> order, absolute |-> absolute]
    /\ outcome' = IF DerivateThrows(morphs[s].data, order) THEN Threw
                  ELSE Returned(Derivate(morphs[s].data, order, absolute))
    /\ UNCHANGED <<morphs, metric>>

\* a getter or method of morphs[s] is called, and throws or returns
InvokeOnMorph(s, name, opts, throws, value) ==
    /\ op' = name
    /\ args' = [recv |-> s, data |-> morphs[s].data, opts |-> opts]
    /\ outcome' = IF throws THEN Threw ELSE Returned(value)
    /\ UNCHANGED <<morphs, metric>>

\* a Morph exists in slot s and the caller is free to call a method of it
MorphReady(s) == Idle /\ morphs[s].made

\* morphs[s].directionInterval
GetDirectionInterval(s) ==
    /\ MorphReady(s)
    /\ InvokeOnMorph(s, "directionInterval", [none |-> 0], FALSE,
                     DirectionInterval(morphs[s].data))

\* morphs[s].linearContourVector, which calls this.derivate(1)
GetLinearContourVector(s) ==
    /\ MorphReady(s)
    /\ InvokeOnMorph(s, "linearContourVector", [none |-> 0],
                     DerivateThrows(morphs[s].data, 1),
                     LinearContourVector(morphs[s].data))

\* morphs[s].intervalVariance()
CallIntervalVariance(s) ==
    /\ MorphReady(s)
    /\ InvokeOnMorph(s, "intervalVariance", [none |-> 0], FALSE,
                     IntervalVariance(morphs[s].data))

\* morphs[s].combinatorialContourVector
GetCombinatorialContourVector(s) ==
    /\ MorphReady(s)
    /\ InvokeOnMorph(s, "combinatorialContourVector", [none |-> 0], FALSE,
                     CombinatorialContourVector(morphs[s].data))

\* morphs[s].morrisRanking
GetMorrisRanking(s) ==
    /\ MorphReady(s)
    /\ InvokeOnMorph(s, "morrisRanking", [none |-> 0], FALSE, MorrisRanking(morphs[s].data))

\* morphs[s].combinatorialMagnitudeMatrix
GetCombinatorialMagnitudeMatrix(s) ==
    /\ MorphReady(s)
    /\ InvokeOnMorph(s, "combinatorialMagnitudeMatrix", [none |-> 0], FALSE,
                     CombinatorialMagnitudeMatrix(morphs[s].data))

\* morphs[s].generateIntervals(o)
CallGenerateIntervals(s, o) ==
    /\ MorphReady(s)
    /\ InvokeOnMorph(s, "generateIntervals", o,
                     IntervalsThrow(morphs[s].data, o), IntervalsOf(morphs[s].data, o))

\* new MorphologicalMetric([morphs[1], morphs[2]], ordered)
NewMetric(orderedArg) ==
    /\ Idle
    /\ morphs[1].made /\ morphs[2].made
    /\ ~metric.made
    /\ op' = "new MorphologicalMetric"
    /\ args' = [recv |-> 0, m |-> morphs[1].data, n |-> morphs[2].data, ordered |-> orderedArg]
    /\ LET ordered == OrElse(orderedArg, DefaultOrdered)
       IN  IF MetricLengthsRejected(morphs[1].data, morphs[2].data, ordered)
           THEN /\ outcome' = Threw
                /\ UNCHANGED metric
           ELSE /\ outcome' = Returned(NoValue)
                /\ metric' = [made |-> TRUE, ordered |-> ordered]
    /\ UNCHANGED morphs

\* a MorphologicalMetric exists and the caller is free to call a method of it
MetricReady == Idle /\ metric.made

\* the method `name' is called with the options opts, and throws or returns
Invoke(name, opts, throws, value) ==
    /\ op' = name
    /\ args' = [recv |-> 0, m |-> morphs[1].data, n |-> morphs[2].data,
                ordered |-> metric.ordered, opts |-> opts]
    /\ outcome' = IF throws THEN Threw ELSE Returned(value)
    /\ UNCHANGED <<morphs, metric>>

\* metric.SobalevOLM({ minOrder, maxOrder, weights })
CallSobalevOLM(minArg, maxArg, weightsArg) ==
    LET m == morphs[1].data
        n == morphs[2].data
        minOrder == OrElse(minArg, SobalevDefaultMinOrder)
        maxOrder == OrElse(maxArg, SobalevDefaultMaxOrder)
    IN  /\ MetricReady
        /\ Invoke("SobalevOLM",
                  [minOrder |-> minArg, maxOrder |-> maxArg, weights |-> weightsArg],
                  SobalevThrows(m, n, metric.ordered, minOrder, maxOrder, weightsArg),
                  SobalevOLM(m, n, minOrder, maxOrder, weightsArg))

\* metric.OLMOriginal({ squared: false, order })
CallOLMOriginal(orderArg) ==
    LET order == OrElse(orderArg, 1)
    IN  /\ MetricReady
        /\ Invoke("OLMOriginal", [order |-> orderArg],
                  OLMOriginalThrows(morphs[1].data, morphs[2].data, metric.ordered, order),
                  OLMOriginal(morphs[1].data, morphs[2].data, order))

\* metric.OLMGeneral({ order })
CallOLMGeneral(orderArg) ==
    LET order == OrElse(orderArg, 1)
    IN  /\ MetricReady
        /\ Invoke("OLMGeneral", [order |-> orderArg],
                  OLMGeneralThrows(morphs[1].data, morphs[2].data, order),
                  OLMGeneral(morphs[1].data, morphs[2].data, order))

CallOLMCanonical ==
    /\ MetricReady
    /\ Invoke("OLMCanonical", [none |-> 0], FALSE, OLMCanonical(morphs[1].data, morphs[2].data))

CallOLMScaled ==
    /\ MetricReady
    /\ Invoke("OLMScaled", [none |-> 0], FALSE, OLMScaled(morphs[1].data, morphs[2].data))

CallOLMRelativeScaling ==
    /\ MetricReady
    /\ Invoke("OLMRelativeScaling", [none |-> 0], FALSE,
              OLMRelativeScaling(morphs[1].data, morphs[2].data))

\* metric.OLM({ scaling })
CallOLM(scalingArg) ==
    /\ MetricReady
    /\ Invoke("OLM", [scaling |-> scalingArg], FALSE,
              OLM(morphs[1].data, morphs[2].data, OrElse(scalingArg, "none")))

\* metric.OLD({ verbose })
CallOLD(verbose) ==
    /\ MetricReady
    /\ Invoke("OLD", [verbose |-> verbose], FALSE, OLD(morphs[1].data, morphs[2].data, verbose))

\* metric.ULD({ verbose })
CallULD(verbose) ==
    /\ MetricReady
    /\ Invoke("ULD", [verbose |-> verbose], FALSE, ULD(morphs[1].data, morphs[2].data, verbose))

\* metric.UCD({ verbose })
CallUCD(verbose) ==
    /\ MetricReady
    /\ Invoke("UCD", [verbose |-> verbose], FALSE, UCD(morphs[1].data, morphs[2].data, verbose))

\* metric.MagnitudeMetric({ absolute, normalized })
CallMagnitudeMetric(absoluteArg, normalizedArg) ==
    /\ MetricReady
    /\ Invoke("MagnitudeMetric", [absolute |-> absoluteArg, normalized |-> normalizedArg],
              FALSE,
              MagnitudeMetric(morphs[1].data, morphs[2].data,
                              OrElse(absoluteArg, TRUE), OrElse(normalizedArg, TRUE)))

\* metric.ULM({ scaling })
CallULM(scalingArg) ==
    /\ MetricReady
    /\ Invoke("ULM", [scaling |-> scalingArg], FALSE,
              ULM(morphs[1].data, morphs[2].data, OrElse(scalingArg, "none")))

\* metric.UCM({ scaling })
CallUCM(scalingArg) ==
    /\ MetricReady
    /\ Invoke("UCM", [scaling |-> scalingArg], FALSE,
              UCM(morphs[1].data, morphs[2].data, OrElse(scalingArg, "none")))

CallMaxULM ==
    /\ MetricReady
    /\ Invoke("maxULM", [none |-> 0], FALSE, MaxULM(morphs[1].data, morphs[2].data))

CallMaxUCM ==
    /\ MetricReady
    /\ Invoke("maxUCM", [none |-> 0], FALSE, MaxUCM(morphs[1].data, morphs[2].data))

CallULDUnequalLengthForm ==
    /\ MetricReady
    /\ Invoke("ULDUnequalLengthForm", [none |-> 0], FALSE,
              ULDUnequalLengthForm(morphs[1].data, morphs[2].data))

CallUCDUnequalLengthForm ==
    /\ MetricReady
    /\ Invoke("UCDUnequalLengthForm", [none |-> 0], FALSE,
              UCDUnequalLengthForm(morphs[1].data, morphs[2].data))

\* metric.OLMMetaInterval()
CallOLMMetaInterval ==
    /\ MetricReady
    /\ Invoke("OLMMetaInterval", [none |-> 0], FALSE,
              OLMMetaInterval(morphs[1].data, morphs[2].data))

\* metric.OCD({ verbose })
CallOCD(verbose) ==
    /\ MetricReady
    /\ Invoke("OCD", [verbose |-> verbose], FALSE, OCD(morphs[1].data, morphs[2].data, verbose))

\* metric.OCM({ scaling })
CallOCM(scalingArg) ==
    /\ MetricReady
    /\ Invoke("OCM", [scaling |-> scalingArg], FALSE,
              OCM(morphs[1].data, morphs[2].data, OrElse(scalingArg, "none")))

CallMaxOLM ==
    /\ MetricReady
    /\ Invoke("maxOLM", [none |-> 0], FALSE, MaxOLM(morphs[1].data, morphs[2].data))

CallMaxOCM ==
    /\ MetricReady
    /\ Invoke("maxOCM", [none |-> 0], FALSE, MaxOCM(morphs[1].data, morphs[2].data))

\* metric.OLMGeneralizedInterval({ mIntervalForm, nIntervalForm }), the other
\* options left out
CallOLMGeneralizedInterval(mForm, nForm) ==
    LET mOpts == [form |-> mForm, adjacencyInterval |-> Omitted,
                  fundamentalValue |-> Omitted, fundamentalIndex |-> Omitted]
        nOpts == [form |-> nForm, adjacencyInterval |-> Omitted,
                  fundamentalValue |-> Omitted, fundamentalIndex |-> Omitted]
    IN  /\ MetricReady
        /\ Invoke("OLMGeneralizedInterval", [m |-> mOpts, n |-> nOpts],
                  OLMGeneralizedIntervalThrows(morphs[1].data, morphs[2].data, mOpts, nOpts),
                  OLMGeneralizedInterval(morphs[1].data, morphs[2].data, mOpts, nOpts))

\* the caller drops the result and goes on
Continue ==
    /\ ~Idle
    /\ op' = "none"
    /\ args' = [recv |-> 0]
    /\ outcome' = Returned(NoValue)
    /\ UNCHANGED <<morphs, metric>>

Next ==
    \/ \E s \in 1..2, a \in Inputs : NewMorph(s, a)
    \/ \E s \in 1..2, k \in Orders, b \in BOOLEAN : CallDerivate(s, k, b)
    \/ \E s \in 1..2 : GetDirectionInterval(s)
    \/ \E s \in 1..2 : GetLinearContourVector(s)
    \/ \E s \in 1..2 : GetCombinatorialContourVector(s)
    \/ \E s \in 1..2 : GetMorrisRanking(s)
    \/ \E s \in 1..2 : GetCombinatorialMagnitudeMatrix(s)
    \/ \E s \in 1..2 : CallIntervalVariance(s)
    \/ \E s \in 1..2, o \in IntervalOptions : CallGenerateIntervals(s, o)
    \/ \E o \in Opt(BOOLEAN) : NewMetric(o)
    \/ \E lo \in SobalevMinArgs, hi \in SobalevMaxArgs, w \in Opt(WeightVectors) :
          CallSobalevOLM(lo, hi, w)
    \/ \E k \in Opt(MetricOrders) : CallOLMOriginal(k)
    \/ \E k \in Opt(MetricOrders) : CallOLMGeneral(k)
    \/ CallOLMCanonical
    \/ CallOLMScaled
    \/ CallOLMRelativeScaling
    \/ \E sc \in Opt(Scalings) : CallOLM(sc)
    \/ \E v \in BOOLEAN : CallOLD(v)
    \/ \E v \in BOOLEAN : CallOCD(v)
    \/ \E v \in BOOLEAN : CallULD(v)
    \/ \E v \in BOOLEAN : CallUCD(v)
    \/ \E a \in Opt(BOOLEAN), nz \in Opt(BOOLEAN) : CallMagnitudeMetric(a, nz)
    \/ \E sc \in Opt(Scalings) : CallOCM(sc)
    \/ CallMaxOLM
    \/ CallMaxOCM
    \/ \E sc \in Opt(Scalings) : CallULM(sc)
    \/ \E sc \in Opt(Scalings) : CallUCM(sc)
    \/ CallMaxULM
    \/ CallMaxUCM
    \/ CallULDUnequalLengthForm
    \/ CallUCDUnequalLengthForm
    \/ CallOLMMetaInterval
    \/ \E mf \in Opt(IntervalForms), nf \in Opt(IntervalForms) :
          CallOLMGeneralizedInterval(mf, nf)
    \/ Continue

Spec == Init /\ [][Next]_vars

----------------------------------------------------------------------------
(* The caller's state machine with the arrays it shares with a Morph *)

\* arrays passed to the constructor when the caller goes on to change them
SharedInputs == SeqsUpTo(Vals, MaxLen - 1) \cup { <<-1, 0, 2>> }

\* derivate: `out = this.data' is returned as it is unless `absolute' maps it
\* to a new array
DerivateReturnsData(order, absolute) == order = 0 /\ ~absolute

\* out[i] = x, on the array the last derivate call returned
ChangeReturnedValue(i, x) ==
    /\ op = "derivate"
    /\ ~outcome.threw
    /\ i \in 1..Len(outcome.value)
    /\ outcome.value[i] # x
    /\ op' = "change returned value"
    /\ args' = [recv |-> args.recv, data |-> args.data, order |-> args.order,
                absolute |-> args.absolute, index |-> i, to |-> x]
    /\ outcome' = Returned([outcome.value EXCEPT ![i] = x])
    /\ morphs' = IF DerivateReturnsData(args.order, args.absolute)
                 THEN [morphs EXCEPT ![args.recv].data = [@ EXCEPT ![i] = x]]
                 ELSE morphs
    /\ UNCHANGED metric

\* a[i] = x, on the array a the caller passed to new Morph(a) in slot s: the
\* constructor kept that array itself
CallerWritesArray(s, i, x) ==
    /\ MorphReady(s)
    /\ i \in 1..Len(morphs[s].data)
    /\ morphs[s].data[i] # x
    /\ op' = "caller writes array"
    /\ args' = [recv |-> s, data |-> morphs[s].data, index |-> i, to |-> x]
    /\ outcome' = Returned(NoValue)
    /\ morphs' = [morphs EXCEPT ![s].data = [@ EXCEPT ![i] = x]]
    /\ UNCHANGED metric

\* a.pop(), on the array a the caller passed to new Morph(a) in slot s
CallerShortensArray(s) ==
    /\ MorphReady(s)
    /\ Len(morphs[s].data) > 0
    /\ op' = "caller shortens array"
    /\ args' = [recv |-> s, data |-> morphs[s].data]
    /\ outcome' = Returned(NoValue)
    /\ morphs' = [morphs EXCEPT ![s].data = SubSeq(@, 1, Len(@) - 1)]
    /\ UNCHANGED metric

NextAliasing ==
    \/ \E s \in 1..2, a \in SharedInputs : NewMorph(s, a)
    \/ \E s \in 1..2, k \in 0..1, b \in BOOLEAN : CallDerivate(s, k, b)
    \/ \E s \in 1..2 : GetLinearContourVector(s)
    \/ \E s \in 1..2 : GetMorrisRanking(s)
    \/ \E o \in Opt(BOOLEAN) : NewMetric(o)
    \/ CallMaxULM
    \/ CallULDUnequalLengthForm
    \/ \E i \in 1..MaxLen, x \in Vals : ChangeReturnedValue(i, x)
    \/ \E s \in 1..2, i \in 1..MaxLen, x \in Vals : CallerWritesArray(s, i, x)
    \/ \E s \in 1..2 : CallerShortensArray(s)
    \/ Continue

SpecAliasing == Init /\ [][NextAliasing]_vars

----------------------------------------------------------------------------
(* Reference definitions used by the properties below *)

\* the forward difference of a sequence of integers
Delta(s) == [i \in 1..(Len(s) - 1) |-> s[i + 1] - s[i]]

\* Delta applied k times
RECURSIVE NthDifference(_, _)
NthDifference(s, k) == IF k = 0 THEN s ELSE Delta(NthDifference(s, k - 1))

Magnitudes(s) == [i \in 1..Len(s) |-> IF s[i] < 0 THEN -s[i] ELSE s[i]]

DerivateReturned == op = "derivate" /\ ~outcome.threw

\* A_k: the mean over i of |derivate(k, true) of m at i - derivate(k, true) of n at i|,
\* for two sequences of one length
MeanAbsDifference(m, n, k) ==
    LET dm == Derivate(m, k, TRUE)
        dn == Derivate(n, k, TRUE)
        total[i \in 0..Len(dm)] ==
            IF i = 0 THEN 0 ELSE total[i - 1] + Abs(dm[i] - dn[i])
    IN  Norm(total[Len(dm)], Len(dm))

\* the sum of w[k - lo] * A_k over the orders k = lo..hi  (w is 0-based here)
WeightedOrderSum(m, n, lo, hi, w) ==
    LET partial[k \in (lo - 1)..hi] ==
            IF k < lo THEN R(0)
            ELSE RAdd(partial[k - 1], RMul(w[k - lo + 1], MeanAbsDifference(m, n, k)))
    IN  partial[hi]

\* the sum of the elements of w
Total(w) ==
    LET partial[k \in 0..Len(w)] ==
            IF k = 0 THEN R(0) ELSE RAdd(partial[k - 1], w[k])
    IN  partial[Len(w)]

SobalevCalled == op = "SobalevOLM"
SobalevMin == OrElse(args.opts.minOrder, 0)
SobalevMax == OrElse(args.opts.maxOrder, 2)

----------------------------------------------------------------------------
(* Properties *)

\* C1: new Morph(a) throws exactly when a has fewer than 2 elements and then
\* yields no Morph; otherwise it succeeds and the Morph's data is a, element
\* for element.  Hence every Morph that exists has at least 2 elements.
C1_MorphConstruction ==
    /\ op = "new Morph" =>
         /\ outcome.threw <=> Len(args.data) < 2
         /\ outcome.threw => ~morphs[args.recv].made
         /\ ~outcome.threw =>
              /\ morphs[args.recv].made
              /\ Len(morphs[args.recv].data) = Len(args.data)
              /\ \A i \in 1..Len(args.data) : morphs[args.recv].data[i] = args.data[i]
    /\ \A s \in 1..2 : morphs[s].made => Len(morphs[s].data) >= 2

\* a one-element array was refused for slot 2 after slot 1 was built
C1_Witness ==
    /\ op = "new Morph" /\ args.recv = 2 /\ Len(args.data) = 1 /\ outcome.threw
    /\ morphs[1].made /\ ~morphs[2].made

\* the metrics that are defined on ordered pairs only
OrderedOnlyMetrics ==
    { "OLM", "OLMCanonical", "OLMScaled", "OLMRelativeScaling", "OLMOriginal",
      "SobalevOLM", "OLMGeneral", "OLMGeneralizedInterval", "OLD", "OCD", "OCM",
      "maxOLM", "maxOCM" }

\* C3: every ordered-only metric throws, returning no value, when it is called
\* on a MorphologicalMetric constructed with ordered = false, whatever the
\* lengths of the two operands.
C3_OrderedOnlyMetricsRefuseUnordered ==
    (op \in OrderedOnlyMetrics /\ ~args.ordered) => outcome.threw

\* ... which the two metrics that test `ordered' do
C3_Witness ==
    /\ op \in {"OLMOriginal", "SobalevOLM"} /\ ~args.ordered /\ outcome.threw
    /\ Len(args.m) = Len(args.n)

\* C4: for 1 <= k < len(s), derivate(k), absolute or not, returns a sequence of
\* length len(s) - k; derivate(0) with absolute unset returns exactly s.
C4_DerivateLength ==
    op = "derivate" =>
      /\ (1 <= args.order /\ args.order < Len(args.data)) =>
           /\ ~outcome.threw
           /\ Len(outcome.value) = Len(args.data) - args.order
      /\ (args.order = 0 /\ ~args.absolute) =>
           /\ ~outcome.threw
           /\ outcome.value = args.data

\* the third difference of a five-element Morph has two elements
C4_Witness ==
    /\ DerivateReturned /\ args.order = 3 /\ Len(args.data) = 5
    /\ Len(outcome.value) = 2

\* C5: for 1 <= k < len(s) the signed derivate(k) is the order-1 difference of
\* the signed derivate(k-1): derivate(k)[i] = derivate(k-1)[i+1] - derivate(k-1)[i];
\* so it is the forward difference applied k times to s.
C5_DerivateRecurrence ==
    (DerivateReturned /\ ~args.absolute /\ args.order >= 1) =>
      LET prev == Derivate(args.data, args.order - 1, FALSE)
      IN  /\ Len(outcome.value) = Len(prev) - 1
          /\ \A i \in 1..Len(outcome.value) : outcome.value[i] = prev[i + 1] - prev[i]
          /\ outcome.value = NthDifference(args.data, args.order)

\* [0,2,4,1,0].derivate(3) = [-5, 7]
C5_Witness ==
    /\ DerivateReturned /\ ~args.absolute /\ args.order = 3
    /\ args.data = <<0, 2, 4, 1, 0>> /\ outcome.value = <<-5, 7>>

\* C6: derivate(order, absolute) throws exactly when order < 0 or
\* len(data) - order < 1; for 0 <= order <= len(data) - 1 it returns.
C6_DerivateErrors ==
    op = "derivate" =>
      (outcome.threw <=> (args.order < 0 \/ Len(args.data) - args.order < 1))

\* an order equal to the length was refused
C6_Witness ==
    /\ op = "derivate" /\ outcome.threw
    /\ args.order = Len(args.data)

\* C7 as stated: derivate(k, true)[i] = |derivate(k, false)[i]| for every valid k >= 1.
C7_AbsoluteIsMagnitudeOfSigned ==
    (DerivateReturned /\ args.absolute /\ args.order >= 1) =>
      outcome.value = Magnitudes(Derivate(args.data, args.order, FALSE))

\* C7 as amended: derivate(1, true)[i] = |derivate(1, false)[i]|, and for every
\* valid k >= 1 each element of derivate(k, true) is a magnitude (>= 0); for
\* k >= 2 the magnitudes are taken at every order, not only of the signed result.
C7_AbsoluteFirstOrder ==
    (DerivateReturned /\ args.absolute /\ args.order >= 1) =>
      /\ \A i \in 1..Len(outcome.value) : outcome.value[i] >= 0
      /\ args.order = 1 => outcome.value = Magnitudes(NthDifference(args.data, 1))

\* a first-order absolute interval of a falling step
C7_Witness ==
    /\ DerivateReturned /\ args.absolute /\ args.order = 1
    /\ \E i \in 1..Len(outcome.value) : args.data[i + 1] < args.data[i]

\* C8: for k >= 2, derivate(k, true) is the element-wise magnitude of the order-1
\* difference of derivate(k-1, true); so secondOrderAbsoluteInterval[i] =
\* | |data[i+2] - data[i+1]| - |data[i+1] - data[i]| |, and [0,2,4,1,0] gives
\* first order [2,2,3,1] and second order [0,1,2].
C8_AbsoluteNested ==
    (DerivateReturned /\ args.absolute) =>
      LET d == args.data
          v == outcome.value
      IN  /\ args.order >= 2 =>
                v = Magnitudes(Delta(Derivate(d, args.order - 1, TRUE)))
          /\ args.order = 2 =>
                \A i \in 1..(Len(d) - 2) :
                    v[i] = Abs(Abs(d[i + 2] - d[i + 1]) - Abs(d[i + 1] - d[i]))
          /\ (d = <<0, 2, 4, 1, 0>> /\ args.order = 1) => v = <<2, 2, 3, 1>>
          /\ (d = <<0, 2, 4, 1, 0>> /\ args.order = 2) => v = <<0, 1, 2>>

\* a second-order absolute interval that is not the magnitude of the signed
\* second difference
C8_Witness ==
    /\ DerivateReturned /\ args.absolute /\ args.order = 2
    /\ outcome.value # Magnitudes(NthDifference(args.data, 2))

\* C2: new MorphologicalMetric throws exactly when ordered is true (as it is when
\* omitted) and the two data lengths differ; so an ordered MorphologicalMetric
\* has operands of equal length, and ordered = false succeeds for any lengths.
C2_MetricConstruction ==
    /\ op = "new MorphologicalMetric" =>
         LET ordered == args.ordered # Given(FALSE)
         IN  /\ outcome.threw <=> (ordered /\ Len(args.m) # Len(args.n))
             /\ outcome.threw => ~metric.made
             /\ ~outcome.threw => (metric.made /\ metric.ordered = ordered)
             /\ args.ordered = Given(FALSE) => ~outcome.threw
    /\ (metric.made /\ metric.ordered) => Len(morphs[1].data) = Len(morphs[2].data)

\* construction with `ordered' omitted was refused for operands of lengths 2 and 3
C2_Witness ==
    /\ op = "new MorphologicalMetric" /\ args.ordered = Omitted /\ outcome.threw
    /\ Len(args.m) = 2 /\ Len(args.n) = 3

\* C9: with weights omitted, SobalevOLM({minOrder, maxOrder}) on an ordered pair
\* (maxOrder < length) returns the plain average over the orders minOrder..maxOrder
\* of the per-order mean of |derivate(k, true) of m - derivate(k, true) of n|.
C9_DefaultWeightsPlainAverage ==
    ( /\ SobalevCalled /\ args.ordered /\ args.opts.weights = Omitted
      /\ 0 <= SobalevMin /\ SobalevMin < SobalevMax /\ SobalevMax < Len(args.m) ) =>
        /\ ~outcome.threw
        /\ outcome.value =
             RDiv(WeightedOrderSum(args.m, args.n, SobalevMin, SobalevMax,
                                   [k \in 1..(SobalevMax - SobalevMin + 1) |-> R(1)]),
                  R(SobalevMax - SobalevMin + 1))

\* C10 as stated: with explicit weights w of length maxOrder - minOrder + 1 (the
\* orders minOrder..maxOrder being orders derivate accepts), SobalevOLM on an
\* ordered pair returns (sum of w[k - minOrder] * A_k) / (sum of w); weights of
\* any other length make the call throw.
C10_WeightedAverage ==
    (SobalevCalled /\ args.ordered /\ args.opts.weights # Omitted) =>
      LET w == args.opts.weights[1]
      IN  /\ Len(w) # SobalevMax - SobalevMin + 1 => outcome.threw
          /\ ( /\ Len(w) = SobalevMax - SobalevMin + 1
               /\ 0 <= SobalevMin /\ SobalevMin <= SobalevMax
               /\ SobalevMax < Len(args.m) ) =>
                 /\ ~outcome.threw
                 /\ outcome.value =
                      RDiv(WeightedOrderSum(args.m, args.n, SobalevMin, SobalevMax, w),
                           Total(w))

\* C10 as amended: the weighted average is returned when, besides,
\* 0 <= minOrder < maxOrder < length; weights of any other length make the call
\* throw, and so does maxOrder - minOrder < 1 (a single order is refused even
\* with a one-element weights vector).
C10_WeightedAverageOverTwoOrMoreOrders ==
    (SobalevCalled /\ args.ordered /\ args.opts.weights # Omitted) =>
      LET w == args.opts.weights[1]
      IN  /\ Len(w) # SobalevMax - SobalevMin + 1 => outcome.threw
          /\ SobalevMax - SobalevMin < 1 => outcome.threw
          /\ ( /\ Len(w) = SobalevMax - SobalevMin + 1
               /\ 0 <= SobalevMin /\ SobalevMin < SobalevMax
               /\ SobalevMax < Len(args.m) ) =>
                 /\ ~outcome.threw
                 /\ outcome.value =
                      RDiv(WeightedOrderSum(args.m, args.n, SobalevMin, SobalevMax, w),
                           Total(w))

\* the test suite's call: m = [0,2,5,2,1], n = [4,4,1,6,2], weights [1, 1/2, 1/3]
\* gives (3 + 7/8 + 5/9) / (1 + 1/2 + 1/3) = 29/12
C10_Witness ==
    /\ SobalevCalled /\ ~outcome.threw
    /\ args.m = <<0, 2, 5, 2, 1>> /\ args.n = <<4, 4, 1, 6, 2>>
    /\ args.opts.minOrder = Omitted /\ args.opts.maxOrder = Omitted
    /\ args.opts.weights = Given(<< <<1, 1>>, <<1, 2>>, <<1, 3>> >>)
    /\ outcome.value = <<29, 12>>

----------------------------------------------------------------------------
(* Equivalences between the forms of the ordered linear magnitude metric *)

\* a method of an ordered MorphologicalMetric has returned
OrderedMetricReturned(name) == op = name /\ args.ordered /\ ~outcome.threw

\* C11: on an ordered pair of equal-length Morphs, OLM with scaling 'none'
\* returns what OLMCanonical() returns, and OLMOriginal with squared = false
\* and order = 1 returns what OLMGeneral() with the default comparator returns
C11_OLMFormsAgree ==
    /\ OrderedMetricReturned("OLM") =>
          (OrElse(args.opts.scaling, "none") = "none"
              => outcome.value = OLMCanonical(args.m, args.n))
    /\ OrderedMetricReturned("OLMCanonical") => outcome.value = OLM(args.m, args.n, "none")
    /\ OrderedMetricReturned("OLMOriginal") =>
          (OrElse(args.opts.order, 1) = 1 => outcome.value = OLMGeneral(args.m, args.n, 1))
    /\ OrderedMetricReturned("OLMGeneral") =>
          (OrElse(args.opts.order, 1) = 1 => outcome.value = OLMOriginal(args.m, args.n, 1))

C11_Witness ==
    /\ OrderedMetricReturned("OLMOriginal")
    /\ args.opts.order = Given(1)
    /\ args.m = <<0, 2, 5, 2, 1>> /\ args.n = <<4, 4, 1, 6, 2>>
    /\ outcome.value = <<7, 4>>

----------------------------------------------------------------------------
(* generateIntervals *)

\* generateIntervals was called on a Morph with the form given (or defaulted)
IntervalsCalled(form) ==
    op = "generateIntervals" /\ OrElse(args.opts.form, "adjacency interval") = form

\* a pair of numbers as generateIntervals returns it
Pair(a, b) == <<R(a), R(b)>>

\* where the pair of the 0-based indices i < j stands among all such pairs of
\* l elements listed by increasing i and then increasing j (0-based)
PairPosition(i, j, l) == i * (l - 1) - (i * (i - 1)) \div 2 + (j - i - 1)

\* the 0-based index pairs i < j of l elements
IndexPairs(l) == { p \in (0..(l - 1)) \X (0..(l - 1)) : p[1] < p[2] }

\* C12: for a Morph of length L, generateIntervals with form 'combinatorial
\* interval' returns exactly L(L-1)/2 pairs: (data[i], data[j]) for every
\* 0 <= i < j < L, each once, by increasing i and within equal i by increasing j
C12_CombinatorialIntervals ==
    IntervalsCalled("combinatorial interval") =>
        LET data == args.data
            l == Len(data)
        IN  /\ ~outcome.threw
            /\ Len(outcome.value) = (l * (l - 1)) \div 2
            /\ Len(outcome.value) = Lm(l)
            /\ \A p \in IndexPairs(l) :
                  /\ PairPosition(p[1], p[2], l) \in 0..(Len(outcome.value) - 1)
                  /\ outcome.value[PairPosition(p[1], p[2], l) + 1]
                        = Pair(data[p[1] + 1], data[p[2] + 1])
            /\ \A p, q \in IndexPairs(l) :
                  (p[1] < q[1] \/ (p[1] = q[1] /\ p[2] < q[2]))
                     => PairPosition(p[1], p[2], l) < PairPosition(q[1], q[2], l)

C12_Witness ==
    /\ IntervalsCalled("combinatorial interval")
    /\ args.data = <<0, 2, 5, 2, 1>>
    /\ Len(outcome.value) = 10
    /\ outcome.value[5] = Pair(2, 5)
    /\ outcome.value[10] = Pair(2, 1)

\* C13: for a Morph of length L and 1 <= k < L, generateIntervals with form
\* 'adjacency interval' and adjacencyInterval k returns exactly L - k pairs,
\* the i-th being (data[i], data[i+k]); with no arguments the form is
\* 'adjacency interval' and k is 1
C13_AdjacencyIntervals ==
    IntervalsCalled("adjacency interval") =>
        LET data == args.data
            l == Len(data)
            k == OrElse(args.opts.adjacencyInterval, 1)
        IN  /\ (k >= 1 /\ k < l) =>
                 /\ ~outcome.threw
                 /\ Len(outcome.value) = l - k
                 /\ \A i \in 0..(l - 1 - k) :
                       outcome.value[i + 1] = Pair(data[i + 1], data[i + k + 1])
            /\ (args.opts.form = Omitted /\ args.opts.adjacencyInterval = Omitted) =>
                 /\ ~outcome.threw
                 /\ outcome.value = [i \in 1..(l - 1) |-> Pair(data[i], data[i + 1])]

C13_Witness ==
    /\ IntervalsCalled("adjacency interval")
    /\ args.opts.adjacencyInterval = Given(2)
    /\ args.data = <<0, 2, 4, 1, 0>>
    /\ outcome.value = <<Pair(0, 4), Pair(2, 1), Pair(4, 0)>>

\* C14: generateIntervals with form 'fundamental index' fails whenever
\* fundamentalIndex is undefined or is not an index in 0..len(data)-1; for a
\* valid index f it returns len(data) pairs (data[i], data[f]) in index
\* order, so no returned pair contains an undefined element
C14_FundamentalIndexChecked ==
    IntervalsCalled("fundamental index") =>
        LET data == args.data
            f == args.opts.fundamentalIndex
        IN  /\ (f = Omitted \/ f[1] \notin 0..(Len(data) - 1)) <=> outcome.threw
            /\ ~outcome.threw =>
                 /\ outcome.value = [i \in 1..Len(data) |-> Pair(data[i], data[f[1] + 1])]
                 /\ \A i \in 1..Len(outcome.value) :
                       outcome.value[i][1] # Undefined /\ outcome.value[i][2] # Undefined

\* a pair with an undefined element has been returned
C14_Witness ==
    /\ IntervalsCalled("fundamental index")
    /\ args.opts.fundamentalIndex = Given(-1)
    /\ args.data = <<0, 0, 1>>
    /\ ~outcome.threw
    /\ outcome.value = [i \in 1..3 |-> <<R(args.data[i]), Undefined>>]

----------------------------------------------------------------------------
(* Contour, direction, ranking and magnitude matrix of a Morph *)

\* a getter of a Morph has returned
MorphGetterReturned(name) == op = name /\ ~outcome.threw

\* how many of the 0-based index pairs in P have data[j] - data[i] in class c
\* (1: positive, 0: zero, -1: negative)
CountOfSign(data, P, c) ==
    Cardinality({ p \in P : Sgn(data[p[2] + 1] - data[p[1] + 1]) = c })

\* the 0-based index pairs (i, i+1) of l elements
NeighbourPairs(l) == { p \in IndexPairs(l) : p[2] = p[1] + 1 }

\* C15: for a Morph of length L, linearContourVector is (number of positive,
\* zero, negative order-1 differences) and sums to L - 1, and
\* combinatorialContourVector is (number of pairs i < j with data[j] - data[i]
\* positive, zero, negative) and sums to Lm(L) = L(L-1)/2
C15_ContourVectors ==
    /\ MorphGetterReturned("linearContourVector") =>
          LET data == args.data
              P == NeighbourPairs(Len(data))
          IN  /\ outcome.value
                    = <<CountOfSign(data, P, 1), CountOfSign(data, P, 0), CountOfSign(data, P, -1)>>
              /\ outcome.value[1] + outcome.value[2] + outcome.value[3] = Len(data) - 1
    /\ MorphGetterReturned("combinatorialContourVector") =>
          LET data == args.data
              P == IndexPairs(Len(data))
          IN  /\ outcome.value
                    = <<CountOfSign(data, P, 1), CountOfSign(data, P, 0), CountOfSign(data, P, -1)>>
              /\ outcome.value[1] + outcome.value[2] + outcome.value[3]
                    = (Len(data) * (Len(data) - 1)) \div 2
    /\ op \in {"linearContourVector", "combinatorialContourVector"} => ~outcome.threw

C15_Witness ==
    /\ MorphGetterReturned("combinatorialContourVector")
    /\ args.data = <<0, 2, 4, 1, 0>>
    /\ outcome.value = <<4, 1, 5>>

\* C16: for a Morph of length L, directionInterval has length L - 1 and its
\* i-th element is 1 when data[i] > data[i+1], 0 when they are equal and -1
\* when data[i] < data[i+1]; every element is in {-1, 0, 1}
C16_DirectionInterval ==
    op = "directionInterval" =>
        LET data == args.data
        IN  /\ ~outcome.threw
            /\ Len(outcome.value) = Len(data) - 1
            /\ \A i \in 1..(Len(data) - 1) :
                  /\ outcome.value[i] \in {-1, 0, 1}
                  /\ data[i] > data[i + 1] => outcome.value[i] = 1
                  /\ data[i] = data[i + 1] => outcome.value[i] = 0
                  /\ data[i] < data[i + 1] => outcome.value[i] = -1

C16_Witness ==
    /\ MorphGetterReturned("directionInterval")
    /\ args.data = <<0, 0, 1>>
    /\ outcome.value = <<0, -1>>

InversionOf(m, n) ==
    /\ Len(m) = Len(n)
    /\ \A i \in 1..Len(m) : n[i] + m[i] = n[1] + m[1]

\* C18: for a Morph of length L, combinatorialMagnitudeMatrix has L - 1
\* rows, row i (0 <= i <= L-2) has L - 1 - i entries, and entry k of row i is
\* |data[i] - data[i+1+k]|; so two Morphs related by n[i] = c - m[i] have
\* identical matrices
C18_CombinatorialMagnitudeMatrix ==
    op = "combinatorialMagnitudeMatrix" =>
        LET data == args.data
            l == Len(data)
            matrix == outcome.value
        IN  /\ ~outcome.threw
            /\ Len(matrix) = l - 1
            /\ \A i \in 0..(l - 2) :
                  /\ Len(matrix[i + 1]) = l - 1 - i
                  /\ \A k \in 0..(l - 2 - i) :
                        /\ matrix[i + 1][k + 1] >= 0
                        /\ matrix[i + 1][k + 1] \in
                              { data[i + 1] - data[i + 2 + k], data[i + 2 + k] - data[i + 1] }
            /\ \A t \in 1..2 :
                  (morphs[t].made /\ InversionOf(data, morphs[t].data))
                     => CombinatorialMagnitudeMatrix(morphs[t].data) = matrix

\* the matrix of a Morph whose inversion is the other Morph
C18_Witness ==
    /\ MorphGetterReturned("combinatorialMagnitudeMatrix")
    /\ args.recv = 1
    /\ args.data = <<-1, 2, 2>>
    /\ morphs[2].made /\ morphs[2].data = <<2, -1, -1>>
    /\ outcome.value = << <<3, 3>>, <<0>> >>

----------------------------------------------------------------------------
(* MagnitudeMetric and the direction metrics *)

\* a method of the MorphologicalMetric was called
MetricCalled(name) == op = name

\* the sum of a sequence of integers
RECURSIVE IntSum(_)
IntSum(arr) == IF arr = <<>> THEN 0 ELSE arr[1] + IntSum(SubSeq(arr, 2, Len(arr)))

\* the magnitude of an integer
Magnitude(x) == IF x < 0 THEN 0 - x ELSE x

\* C19: for equal-length Morphs of length L with signed first differences dm
\* and dn, MagnitudeMetric() = (1/(L-1)) * sum | |dm_i| - |dn_i| |, with
\* normalized = false it is that sum undivided, and with absolute = false it
\* is (1/(L-1)) * sum (dm_i - dn_i) with no absolute value anywhere
C19_MagnitudeMetric ==
    (MetricCalled("MagnitudeMetric") /\ Len(args.m) = Len(args.n)) =>
        LET l == Len(args.m)
            dm == Delta(args.m)
            dn == Delta(args.n)
            absolute == OrElse(args.opts.absolute, TRUE)
            normalized == OrElse(args.opts.normalized, TRUE)
            sum == IF absolute
                   THEN IntSum([i \in 1..(l - 1) |->
                                   Magnitude(Magnitude(dm[i]) - Magnitude(dn[i]))])
                   ELSE IntSum([i \in 1..(l - 1) |-> dm[i] - dn[i]])
        IN  /\ ~outcome.threw
            /\ outcome.value = IF normalized THEN Norm(sum, l - 1) ELSE R(sum)

C19_Witness ==
    /\ MetricCalled("MagnitudeMetric")
    /\ args.m = <<0, 2, 5, 2, 1>> /\ args.n = <<4, 4, 1, 6, 2>>
    /\ args.opts.absolute = Given(FALSE) /\ args.opts.normalized = Omitted
    /\ outcome.value = <<3, 4>>

\* the number a direction metric returned, taken out of the record when verbose
DirectionValue == IF args.opts.verbose THEN outcome.value.value ELSE outcome.value

\* a number in [0, 1]
InUnitInterval(v) == IsFinite(v) /\ ~RLess(v, R(0)) /\ ~RLess(R(1), v)

\* the raw mismatch sum of two contour vectors
VectorMismatch(mVec, nVec) == IntSum([i \in 1..3 |-> Magnitude(mVec[i] - nVec[i])])

\* the raw mismatch sum of two equally long sign sequences
SignMismatch(mSgns, nSgns) ==
    Cardinality({ i \in 1..Len(mSgns) : mSgns[i] # nSgns[i] })

\* the signs of the combinatorial intervals of data
CombinatorialSigns(data) ==
    [i \in 1..Len(CombinatorialIntervals(data)) |->
        DeltaSgn(CombinatorialIntervals(data)[i][1], CombinatorialIntervals(data)[i][2])]

\* C20: on every MorphologicalMetric that can be constructed (ordered with
\* equal lengths for OLD and OCD; ordered or unordered, with equal or unequal
\* lengths, for ULD and UCD) the direction metrics return a value in [0, 1]
\* that is the raw mismatch sum times the grain, the grain being 1/(2(L-1))
\* for ULD, 1/(L-1) for OLD, 1/Lm(L) for OCD and 1/(2 Lm(L)) for UCD; with
\* verbose = true the record's value equals the non-verbose result
C20_DirectionMetricsInUnitInterval ==
    LET m == args.m
        n == args.n
        l == Len(m)
    IN  /\ MetricCalled("ULD") =>
              /\ ~outcome.threw
              /\ InUnitInterval(DirectionValue)
              /\ DirectionValue
                    = Norm(VectorMismatch(LinearContourVector(m), LinearContourVector(n)),
                           2 * (l - 1))
              /\ args.opts.verbose =>
                    /\ outcome.value.grain = Norm(1, 2 * (l - 1))
                    /\ outcome.value.value = ULD(m, n, FALSE)
        /\ (MetricCalled("OLD") /\ args.ordered) =>
              /\ ~outcome.threw
              /\ InUnitInterval(DirectionValue)
              /\ DirectionValue
                    = Norm(SignMismatch(DirectionInterval(m), DirectionInterval(n)), l - 1)
              /\ args.opts.verbose =>
                    /\ outcome.value.grain = Norm(1, l - 1)
                    /\ outcome.value.value = OLD(m, n, FALSE)
        /\ (MetricCalled("OCD") /\ args.ordered) =>
              /\ ~outcome.threw
              /\ InUnitInterval(DirectionValue)
              /\ DirectionValue
                    = Norm(SignMismatch(CombinatorialSigns(m), CombinatorialSigns(n)), Lm(l))
              /\ args.opts.verbose =>
                    /\ outcome.value.grain = Norm(1, Lm(l))
                    /\ outcome.value.value = OCD(m, n, FALSE)
        /\ MetricCalled("UCD") =>
              /\ ~outcome.threw
              /\ InUnitInterval(DirectionValue)
              /\ DirectionValue
                    = Norm(VectorMismatch(CombinatorialContourVector(m),
                                          CombinatorialContourVector(n)),
                           2 * Lm(l))
              /\ args.opts.verbose =>
                    /\ outcome.value.grain = Norm(1, 2 * Lm(l))
                    /\ outcome.value.value = UCD(m, n, FALSE)

\* ULD of an unordered pair of unequal lengths has returned 3/2
C20_Witness ==
    /\ MetricCalled("ULD")
    /\ ~args.ordered
    /\ args.m = <<2, -1>> /\ args.n = <<-1, 2, 2>>
    /\ ~args.opts.verbose
    /\ outcome.value = <<3, 2>>

----------------------------------------------------------------------------
(* Scaling *)

\* the metrics that take a scaling option
ScaledMetrics == {"OLM", "ULM", "OCM", "UCM"}

\* a scaled metric was called on operands of equal length with the scaling
\* given (or defaulted to 'none')
ScaledCall(scaling) ==
    /\ op \in ScaledMetrics
    /\ Len(args.m) = Len(args.n)
    /\ OrElse(args.opts.scaling, "none") = scaling

\* the model's value of the metric `name' on (m, n) under a scaling
ScaledMetric(name, m, n, scaling) ==
    IF name = "OLM" THEN OLM(m, n, scaling)
    ELSE IF name = "ULM" THEN ULM(m, n, scaling)
    ELSE IF name = "OCM" THEN OCM(m, n, scaling)
    ELSE UCM(m, n, scaling)

\* the index pairs whose deltas the metric `name' looks at
PairsOf(name, l) == IF name \in {"OLM", "ULM"} THEN NeighbourPairs(l) ELSE IndexPairs(l)

\* the magnitudes |data[j] - data[i]| over the index pairs P
DeltasOver(data, P) == { Magnitude(data[p[2] + 1] - data[p[1] + 1]) : p \in P }

\* the largest element of a non-empty set of integers
Largest(S) == CHOOSE x \in S : \A y \in S : y <= x

\* the largest delta observed over both operands' intervals
SharedMaxDelta(name, m, n) ==
    Largest(DeltasOver(m, PairsOf(name, Len(m))) \cup DeltasOver(n, PairsOf(name, Len(n))))

\* C21: for equal-length Morphs and each of OLM, ULM, OCM, UCM with the
\* default comparator, (result with scaling 'absolute') * M = (result with
\* scaling 'none'), M being the largest delta over both operands' intervals;
\* for all inputs, pairs of constant sequences included
C21_ScalingIdentity ==
    ScaledCall("absolute") =>
        /\ ~outcome.threw
        /\ RMul(outcome.value, R(SharedMaxDelta(op, args.m, args.n)))
              = ScaledMetric(op, args.m, args.n, "none")

\* absolute scaling of a pair of constant sequences has returned NaN
C21_Witness ==
    /\ ScaledCall("absolute")
    /\ op = "OLM"
    /\ args.m = <<2, 2>> /\ args.n = <<2, 2>>
    /\ outcome.value = NaN

\* factors c > 0 and offsets d of the rescalings c * m + d that are tried
ScaleFactors == 1..3
ScaleOffsets == {-2, 0, 5}

\* the data c * data[i] + d
Rescaled(data, c, d) == [i \in 1..Len(data) |-> c * data[i] + d]

\* C22: for equal-length Morphs (m, n), every c > 0 and every d, each of
\* OLM, ULM, OCM, UCM with scaling 'relative' and the default comparator
\* returns for (c*m + d, n) and for (m, c*n + d) what it returns for (m, n)
C22_RelativeScalingInvariance ==
    ScaledCall("relative") =>
        /\ ~outcome.threw
        /\ \A c \in ScaleFactors, d \in ScaleOffsets :
              /\ ScaledMetric(op, Rescaled(args.m, c, d), args.n, "relative") = outcome.value
              /\ ScaledMetric(op, args.m, Rescaled(args.n, c, d), "relative") = outcome.value

C22_Witness ==
    /\ ScaledCall("relative")
    /\ op = "OLM"
    /\ args.m = <<1, 6, 2, 5, 11>> /\ args.n = <<3, 15, 13, 2, 9>>
    /\ outcome.value = <<3, 8>>

----------------------------------------------------------------------------
(* The generalized-interval and meta-interval forms *)

\* the endpoints of a sequence of intervals
Endpoints(ints) == { ints[i][1] : i \in 1..Len(ints) } \cup { ints[i][2] : i \in 1..Len(ints) }

\* the largest of a non-empty set of finite numbers
LargestNumber(S) == CHOOSE x \in S : \A y \in S : ~RLess(x, y)

\* C23: when the interval forms generate the same number c >= 1 of intervals
\* for both operands, OLMGeneralizedInterval returns
\* (sum of psi(delta(mInterval_i), delta(nInterval_i))) / (c * E), E being the
\* largest endpoint of any generated interval of either operand, whatever the
\* sign of the data; when the two counts differ the call fails
C23_GeneralizedInterval ==
    (MetricCalled("OLMGeneralizedInterval")
        /\ ~IntervalsThrow(args.m, args.opts.m) /\ ~IntervalsThrow(args.n, args.opts.n)) =>
        LET mInts == IntervalsOf(args.m, args.opts.m)
            nInts == IntervalsOf(args.n, args.opts.n)
            c == Len(mInts)
            E == LargestNumber(Endpoints(mInts) \cup Endpoints(nInts))
            psi == [i \in 1..c |->
                      RAbs(RSub(RAbs(RSub(mInts[i][1], mInts[i][2])),
                                RAbs(RSub(nInts[i][1], nInts[i][2]))))]
        IN  /\ Len(mInts) # Len(nInts) => outcome.threw
            /\ (Len(mInts) = Len(nInts) /\ c >= 1) =>
                  /\ ~outcome.threw
                  /\ outcome.value = RDiv(Total(psi), RMul(R(c), E))

\* the default form on data that is negative throughout has returned Infinity
C23_Witness ==
    /\ MetricCalled("OLMGeneralizedInterval")
    /\ args.opts.m.form = Omitted /\ args.opts.n.form = Omitted
    /\ args.m = <<-3, -1>> /\ args.n = <<-1, -1>>
    /\ outcome.value = Infinity

\* the magnitudes of the first differences of s
AbsoluteIntervals(s) == [i \in 1..(Len(s) - 1) |-> Magnitude(s[i + 1] - s[i])]

\* the meta-intervals of s: |a[i] - a[i+1]| over its absolute first differences a
MetaIntervals(s) ==
    [i \in 1..(Len(s) - 2) |->
        Magnitude(AbsoluteIntervals(s)[i] - AbsoluteIntervals(s)[i + 1])]

\* C24: for equal-length Morphs of length L >= 3, OLMMetaInterval() with the
\* default psi and delta returns (sum over i = 0..L-3 of |Mm_i - Mn_i|) /
\* ((L-2) * X), X being the largest meta-interval of either operand; the
\* result is a defined number in [0,1] whenever X > 0
C24_MetaInterval ==
    (MetricCalled("OLMMetaInterval") /\ Len(args.m) = Len(args.n) /\ Len(args.m) >= 3) =>
        LET l == Len(args.m)
            Mm == MetaIntervals(args.m)
            Mn == MetaIntervals(args.n)
            X == Largest({ Mm[i] : i \in 1..(l - 2) } \cup { Mn[i] : i \in 1..(l - 2) })
            sum == IntSum([i \in 1..(l - 2) |-> Magnitude(Mm[i] - Mn[i])])
        IN  /\ ~outcome.threw
            /\ outcome.value = Norm(sum, (l - 2) * X)
            /\ X > 0 => InUnitInterval(outcome.value)

\* OLMMetaInterval of the test-suite pair has returned NaN
C24_Witness ==
    /\ MetricCalled("OLMMetaInterval")
    /\ args.m = <<0, 2, 5, 2, 1>> /\ args.n = <<4, 4, 1, 6, 2>>
    /\ outcome.value = NaN

----------------------------------------------------------------------------
(* The unscaled magnitude metrics *)

\* the sum over the index pairs P of |data[j] - data[i]|
RECURSIVE PairDeltaSum(_, _)
PairDeltaSum(data, P) ==
    IF P = {} THEN 0
    ELSE LET p == CHOOSE q \in P : TRUE
         IN  Magnitude(data[p[2] + 1] - data[p[1] + 1]) + PairDeltaSum(data, P \ {p})

\* the sum over the index pairs P of | |m[j] - m[i]| - |n[j] - n[i]| |
RECURSIVE PairMismatchSum(_, _, _)
PairMismatchSum(m, n, P) ==
    IF P = {} THEN 0
    ELSE LET p == CHOOSE q \in P : TRUE
         IN  Magnitude(Magnitude(m[p[2] + 1] - m[p[1] + 1])
                          - Magnitude(n[p[2] + 1] - n[p[1] + 1]))
             + PairMismatchSum(m, n, P \ {p})

\* C25: for equal-length Morphs of length L, the default comparator and
\* scaling 'none': OCM() = (1/Lm(L)) * sum over i<j of | |m[i]-m[j]| - |n[i]-n[j]| |,
\* UCM() = | mean over i<j of |m[i]-m[j]| - mean over i<j of |n[i]-n[j]| |,
\* ULM() = | mean_i |m[i+1]-m[i]| - mean_i |n[i+1]-n[i]| | and
\* OLMCanonical() = mean_i | |m[i+1]-m[i]| - |n[i+1]-n[i]| |
C25_UnscaledMagnitudeMetrics ==
    LET m == args.m
        n == args.n
        l == Len(m)
        all == IndexPairs(l)
        next == NeighbourPairs(l)
    IN  /\ (MetricCalled("OCM") /\ ScaledCall("none")) =>
              /\ ~outcome.threw
              /\ outcome.value = Norm(PairMismatchSum(m, n, all), (l * (l - 1)) \div 2)
        /\ (MetricCalled("UCM") /\ ScaledCall("none")) =>
              /\ ~outcome.threw
              /\ outcome.value
                    = RAbs(RSub(Norm(PairDeltaSum(m, all), Cardinality(all)),
                                Norm(PairDeltaSum(n, all), Cardinality(all))))
        /\ (MetricCalled("ULM") /\ ScaledCall("none")) =>
              /\ ~outcome.threw
              /\ outcome.value
                    = RAbs(RSub(Norm(PairDeltaSum(m, next), l - 1),
                                Norm(PairDeltaSum(n, next), l - 1)))
        /\ (MetricCalled("OLMCanonical") /\ Len(m) = Len(n)) =>
              /\ ~outcome.threw
              /\ outcome.value = Norm(PairMismatchSum(m, n, next), l - 1)

C25_Witness ==
    /\ MetricCalled("UCM")
    /\ args.opts.scaling = Omitted
    /\ args.m = <<1, 6, 2, 5, 11>> /\ args.n = <<3, 15, 13, 2, 9>>
    /\ outcome.value = <<12, 5>>

----------------------------------------------------------------------------
(* Unordered against ordered metrics, operand symmetry, unequal-length forms *)

\* a <= b on finite numbers
AtMost(a, b) == IsFinite(a) /\ IsFinite(b) /\ ~RLess(b, a)

\* each unordered metric with its ordered counterpart
Counterparts ==
    { <<"ULD", "OLD">>, <<"UCD", "OCD">>, <<"ULM", "OLM">>, <<"UCM", "OCM">>,
      <<"maxULM", "maxOLM">>, <<"maxUCM", "maxOCM">> }

\* the model's value of the metric `name' on (m, n) with its default options
DefaultMetric(name, m, n) ==
    IF name = "ULD" THEN ULD(m, n, FALSE)
    ELSE IF name = "OLD" THEN OLD(m, n, FALSE)
    ELSE IF name = "UCD" THEN UCD(m, n, FALSE)
    ELSE IF name = "OCD" THEN OCD(m, n, FALSE)
    ELSE IF name = "maxULM" THEN MaxULM(m, n)
    ELSE IF name = "maxOLM" THEN MaxOLM(m, n)
    ELSE IF name = "maxUCM" THEN MaxUCM(m, n)
    ELSE IF name = "maxOCM" THEN MaxOCM(m, n)
    ELSE ScaledMetric(name, m, n, "none")

\* the number the call returned, taken out of the record of a verbose call
ReturnedNumber ==
    IF op \in {"ULD", "OLD", "UCD", "OCD"} THEN DirectionValue ELSE outcome.value

\* the metric `name' was called with its default comparator and no scaling
\* on operands of equal length, and returned
UnscaledCallReturned(name) ==
    /\ op = name
    /\ Len(args.m) = Len(args.n)
    /\ ~outcome.threw
    /\ name \in ScaledMetrics => OrElse(args.opts.scaling, "none") = "none"

\* C28: for equal-length Morphs and the default comparator every unordered
\* metric is at most its ordered counterpart: ULD <= OLD, UCD <= OCD,
\* ULM <= OLM (scaling 'none'), UCM <= OCM, maxULM <= maxOLM, maxUCM <= maxOCM
C28_UnorderedAtMostOrdered ==
    \A pair \in Counterparts :
        /\ UnscaledCallReturned(pair[1]) =>
              AtMost(ReturnedNumber, DefaultMetric(pair[2], args.m, args.n))
        /\ UnscaledCallReturned(pair[2]) =>
              AtMost(DefaultMetric(pair[1], args.m, args.n), ReturnedNumber)

C28_Witness ==
    /\ UnscaledCallReturned("ULD")
    /\ args.m = <<5, 3, 6, 1, 4>> /\ args.n = <<3, 6, 1, 4, 2>>
    /\ ReturnedNumber = R(0)
    /\ OLD(args.m, args.n, FALSE) = R(1)

\* the metrics claimed symmetric on operands of equal length
SymmetricOnEqualLengths ==
    {"MagnitudeMetric", "OLM", "OCM", "OLD", "OCD", "maxOLM", "maxOCM"}

\* the metrics claimed symmetric in unordered mode on operands of any lengths
SymmetricUnordered ==
    {"ULD", "UCD", "ULM", "UCM", "maxULM", "maxUCM",
     "ULDUnequalLengthForm", "UCDUnequalLengthForm"}

\* the model's value of the call made, had its operands been (m, n)
SameCallOn(m, n) ==
    IF op = "MagnitudeMetric"
    THEN MagnitudeMetric(m, n, OrElse(args.opts.absolute, TRUE),
                         OrElse(args.opts.normalized, TRUE))
    ELSE IF op \in ScaledMetrics
    THEN ScaledMetric(op, m, n, OrElse(args.opts.scaling, "none"))
    ELSE IF op = "ULD" THEN ULD(m, n, args.opts.verbose)
    ELSE IF op = "OLD" THEN OLD(m, n, args.opts.verbose)
    ELSE IF op = "UCD" THEN UCD(m, n, args.opts.verbose)
    ELSE IF op = "OCD" THEN OCD(m, n, args.opts.verbose)
    ELSE IF op = "ULDUnequalLengthForm" THEN ULDUnequalLengthForm(m, n)
    ELSE IF op = "UCDUnequalLengthForm" THEN UCDUnequalLengthForm(m, n)
    ELSE DefaultMetric(op, m, n)

\* C29: with the default comparators, swapping the two Morphs does not change
\* a metric's result: on equal lengths for MagnitudeMetric (absolute), OLM
\* under each scaling, OCM, OLD, OCD, maxOLM and maxOCM, and in unordered
\* mode on any lengths for ULD, UCD, ULM, UCM, maxULM, maxUCM and the two
\* unequal-length forms
C29_OperandSymmetry ==
    /\ (op \in SymmetricOnEqualLengths /\ Len(args.m) = Len(args.n) /\ ~outcome.threw) =>
          ((op = "MagnitudeMetric" => OrElse(args.opts.absolute, TRUE))
              => outcome.value = SameCallOn(args.n, args.m))
    /\ (op \in SymmetricUnordered /\ ~args.ordered /\ ~outcome.threw) =>
          outcome.value = SameCallOn(args.n, args.m)

\* ULD of an unordered pair of unequal lengths differs from ULD of the
\* swapped pair
C29_Witness ==
    /\ op = "ULD" /\ ~args.ordered /\ ~args.opts.verbose
    /\ args.m = <<2, -1>> /\ args.n = <<-1, 2, 2>>
    /\ outcome.value = <<3, 2>>
    /\ SameCallOn(args.n, args.m) = <<3, 4>>

\* the counts (positive, zero, negative) of data[j] - data[i] over the pairs P
SignCounts(data, P) ==
    <<CountOfSign(data, P, 1), CountOfSign(data, P, 0), CountOfSign(data, P, -1)>>

\* half the sum over the slots of | mVec[i] / mTotal - nVec[i] / nTotal |
HalfNormedMismatch(mVec, mTotal, nVec, nTotal) ==
    Norm(IntSum([i \in 1..3 |-> Magnitude(mVec[i] * nTotal - nVec[i] * mTotal)]),
         2 * mTotal * nTotal)

\* C30: on Morphs of equal length ULDUnequalLengthForm() equals ULD() and
\* UCDUnequalLengthForm() equals UCD(), as exact rationals; on any lengths
\* both unequal-length forms are half the sum of the absolute per-slot
\* differences of the contour vectors, each divided by its own total (L - 1,
\* resp. Lm(L)), and so lie in [0, 1]
C30_UnequalLengthForms ==
    LET m == args.m
        n == args.n
    IN  /\ MetricCalled("ULDUnequalLengthForm") =>
              /\ ~outcome.threw
              /\ outcome.value
                    = HalfNormedMismatch(SignCounts(m, NeighbourPairs(Len(m))), Len(m) - 1,
                                         SignCounts(n, NeighbourPairs(Len(n))), Len(n) - 1)
              /\ InUnitInterval(outcome.value)
              /\ Len(m) = Len(n) => outcome.value = ULD(m, n, FALSE)
        /\ MetricCalled("UCDUnequalLengthForm") =>
              /\ ~outcome.threw
              /\ outcome.value
                    = HalfNormedMismatch(SignCounts(m, IndexPairs(Len(m))), Lm(Len(m)),
                                         SignCounts(n, IndexPairs(Len(n))), Lm(Len(n)))
              /\ InUnitInterval(outcome.value)
              /\ Len(m) = Len(n) => outcome.value = UCD(m, n, FALSE)
        /\ (MetricCalled("ULD") /\ Len(m) = Len(n)) =>
              DirectionValue = ULDUnequalLengthForm(m, n)
        /\ (MetricCalled("UCD") /\ Len(m) = Len(n)) =>
              DirectionValue = UCDUnequalLengthForm(m, n)

C30_Witness ==
    /\ MetricCalled("ULDUnequalLengthForm")
    /\ args.m = <<2, -1>> /\ args.n = <<-1, 2, 2>>
    /\ outcome.value = R(1)

\* what the caller does to arrays of its own, as opposed to calls of the library
CallerSteps == { "none", "caller writes array", "caller shortens array" }

\* C26: after a call on a Morph, and after a change the caller makes to the
\* array that call returned, the Morph's data is what it was when the call was
\* made; after a call on a MorphologicalMetric both operands' data are what
\* they were when the call was made
C26_Purity ==
    /\ (op \notin CallerSteps \cup {"new Morph"} /\ args.recv \in 1..2) =>
          morphs[args.recv].data = args.data
    /\ (op \notin CallerSteps /\ args.recv = 0) =>
          /\ morphs[1].data = args.m
          /\ morphs[2].data = args.n

C26_Witness ==
    /\ op = "change returned value"
    /\ args.order = 0 /\ ~args.absolute
    /\ args.data = <<-1, 0, 2>>
    /\ outcome.value = <<-1, 2, 2>>

\* C27: every constructed Morph holds the sequence it was constructed with,
\* of length >= 2, and the operands of an ordered MorphologicalMetric have
\* equal lengths
C27_DataImmutable ==
    /\ \A s \in 1..2 :
          morphs[s].made =>
             /\ morphs[s].data = morphs[s].given
             /\ Len(morphs[s].data) >= 2
    /\ (metric.made /\ metric.ordered) => Len(morphs[1].data) = Len(morphs[2].data)

C27_Witness ==
    /\ op = "caller shortens array"
    /\ morphs[args.recv].given = <<-1, 0, 2>>
    /\ args.data = <<-1, 0, 2>>
    /\ metric.made /\ metric.ordered

=============================================================================
